---- MODULE Spec2Model ----
(***************************************************************************)
(* Client-side caching and connection runtime of react-senior-debug:       *)
(*   CacheManager (LRU + TTL + tag index)   services/cache/CacheManager    *)
(*   cacheFirst / networkFirst / staleWhileRevalidate   cache/strategies   *)
(*   WebSocketManager (connect / disconnect / reconnect)                   *)
(* Each component has its own specification over the shared variables:     *)
(* CacheSpec, StrategySpec and SessionSpec.                                *)
(***************************************************************************)
EXTENDS Integers, Sequences, FiniteSets, TLC

(***************************************************************************)
(* Bounds and input domains                                                *)
(***************************************************************************)
\* the simulated clock (Date.now()) runs over 0..MaxTime
MaxTime == 2
\* the statistics counters are capped by the guards of the actions: a call is
\* taken only while hits + misses + evictions + invalidations <= MaxStat
MaxStat == 2
\* stands for the default of options.defaultTTL (60000 ms), in clock ticks
DefaultTTL == 2

\* CacheManager instances are built with maxEntries in Capacities
Capacities == {1, 2}
Keys == {"a", "b", "c"}
Values == {"v1", "v2"}
Tags == {"t1", "t2"}
\* the (value, options) pairs set() is called with; ttl 0 stands for an
\* absent (falsy) ttl option, tags {} for an absent tags option
SetOptions ==
  { [value |-> "v1", ttl |-> 0, tags |-> {}],
    [value |-> "v2", ttl |-> 1, tags |-> {"t1"}],
    [value |-> "v1", ttl |-> 1, tags |-> {"t1", "t2"}] }
\* regular expressions handed to invalidateByPattern
Patterns == {"^[ab]", "^z"}
\* JavaScript's null: what get / getStale return for an absent key, and a
\* value a fetch can resolve with (a JSON body of null) and a strategy
\* then stores
Null == "null"
\* the strategy calls that can be in flight at once: a slot is taken by a
\* call and is free again once the call's fetch has settled
CallSlots == {1}
\* the keys the strategies are called with, and the keys other users of the
\* store set and invalidate meanwhile
StrategyKeys == {"a"}
OtherKeys == {"a", "b"}
\* the options the strategies are called with: ttl and tags go to set();
\* callbacks: whether onRevalidated / onRevalidateError are given
StrategyOptions ==
  { [ttl |-> 0, tags |-> {}, callbacks |-> TRUE],
    [ttl |-> 1, tags |-> {"t1"}, callbacks |-> FALSE] }
\* what a fetchFn can resolve with
FetchValues == Values \cup {Null}

\* the errors a fetch rejects with
Errors == {"e1", "e2"}
\* new Error('Network request failed and no cached data available')
GenericError == "Network request failed and no cached data available"
\* the WebSockets one manager builds in a run
MaxSockets == 3
\* options.maxReconnectAttempts where the delays are computed
MaxBackoffAttempts == 6
\* options.baseReconnectDelay and options.maxReconnectDelay, in ms
BaseDelays == {1, 1000, 3000}
MaxDelays == {1000, 30000, 500}
\* Math.random() * 1000, in ms
Jitters == {0, 1, 500, 999}
\* options.maxReconnectAttempts
MaxReconnectAttempts == 2
\* options.maxQueueSize
MaxQueueSize == 2
\* messageIdCounter is counted up to MaxMessages by the guards
MaxMessages == 3
\* messageSequence is counted up to MaxTracked by the guards
MaxTracked == 2
\* the deliveries of inbound messages that are observed
MaxDelivered == 4
\* the calls of subscribe
MaxSubscriptions == 2
\* the urls acquire is called with
PoolUrls == {"a", "b"}
\* options.maxConnections of the pools
PoolCapacities == {1, 2}
\* the calls of acquire in a run
MaxCallers == 4
\* the managers a pool builds in a run
MaxPoolSessions == 2
\* the WebSockets a pooled manager builds in a run
MaxPoolSockets == 2
\* the urls apiClient is called with
ApiUrls == {"/api/v1/users", "/api/v1/metrics"}
\* the calls of apiClient made
MaxApiCalls == 3
\* the requests they start
MaxApiRequests == 2
\* the Retry-After headers of the 429 responses, in decimal digits; Null for
\* a response without the header
RetryAfterHeaders == {Null, <<2>>, <<6, 0>>}

\* the callbacks of options
CallbackNames ==
  {"onOpen", "onClose", "onError", "onMessage", "onAuthSuccess",
   "onAuthFailed", "onReconnecting"}
\* the functions the application passes, by what they do when called
Handlers == {"returns", "throws", "disconnect", "destroy"}
\* the sequence field of a message that has none; a number n is <<n>>
Undefined == <<>>
\* heartbeatMissCount is counted up to MaxMissCount by the guards
MaxMissCount == 4
\* the misses after which the heartbeat monitor takes the connection as dead
DeadAfterMisses == 3
\* the reserved inbound message types that change the manager's fields
MessageTypes ==
  {"connection:established", "auth:success", "auth:failed", "heartbeat:ping"}

VARIABLES
  cache,      \* CacheManager.cache: entries in Map insertion order
  tagIndex,   \* CacheManager.tagIndex: tag -> set of keys (a Map: partial)
  stats,      \* CacheManager.stats
  maxEntries, \* CacheManager.maxEntries
  now,        \* Date.now()
  recency,    \* observer: stored keys by their last set / successful get
  lastOp      \* observer: the last public call, what it returned and the
              \* keys it took out of the store

cacheVars == <<cache, tagIndex, stats, maxEntries, now, recency, lastOp>>

VARIABLES
  calls       \* per call slot, the last strategy call made in it: its
              \* arguments, its fetch and what it returned or settled with

strategyVars == <<calls>>

VARIABLES
  manager,    \* the WebSocketManager: a record of its fields
  sockets,    \* every WebSocket the manager has built, by id: its readyState
              \* and whether disconnect() asked for its close (observer)
  orphans,    \* timers that are still scheduled although the manager's
              \* reconnectTimer / heartbeatTimer fields no longer hold them
  backoff,    \* the delay options of a manager, its reconnectAttempts and
              \* the delay _scheduleReconnect computed last
  observed,   \* observer: the ids of the outbound messages in the order the
              \* sockets took them (wire), and the inbound messages in the
              \* order handlers and onMessage were given them (delivered)
  unsubscribes \* the functions the calls of subscribe returned, with the type
              \* and handler each has captured, and whether it was called

sessionVars == <<manager, sockets, orphans, backoff, observed, unsubscribes>>

VARIABLES
  pool,         \* the ConnectionPool: maxConnections, connections (a Map, in
                \* insertion order) and waitQueue
  poolSessions, \* every WebSocketManager the pool has built, by id, with the
                \* sockets it built and the timers it lost track of
  callers       \* every call of acquire, by id: its url, the promise it
                \* returned and the timeout of its wait

poolVars == <<pool, poolSessions, callers>>

VARIABLES
  inFlightRequests, \* apiClient's Map url -> fetchPromise, in insertion order
  requests,         \* every fetchPromise, by id: the options _executeFetch
                    \* was started with, its attempt, what it waits for and
                    \* what it settled with
  apiCalls          \* every call of apiClient, by id: its url, its options
                    \* and the fetchPromise it returned

apiVars == <<inFlightRequests, requests, apiCalls>>

VARIABLES
  mutationRules, \* the CacheInvalidator's Map key -> tags, a rule's tags in
                 \* the order they were given
  registered,    \* the tags registerMutationRule was last called with, by
                 \* the pair <<resourceType, mutationType>> of the call
  mutation       \* the last call of onMutation: its arguments and what it
                 \* returned

invalidatorVars == <<mutationRules, registered, mutation>>

serviceVars == <<poolVars, apiVars, invalidatorVars>>

vars == <<cacheVars, strategyVars, sessionVars, serviceVars>>

(***************************************************************************)
(* CacheEntry                                                              *)
(***************************************************************************)
\* new CacheEntry(key, value, {ttl, tags}); lastAccessedAt, accessCount and
\* etag are written but never read by the cache and are left out
CacheEntry(key, value, ttl, tags, t) ==
  [key |-> key, value |-> value, createdAt |-> t, ttl |-> ttl, tags |-> tags]

\* a plausible slip: the store-wide default instead of the entry's own ttl
isExpiredByDefaultTTL(entry, t) == t - entry.createdAt > DefaultTTL

isExpired(entry, t) == t - entry.createdAt > entry.ttl

(***************************************************************************)
(* CacheManager: operators over a store record [cache, tagIndex, stats]    *)
(***************************************************************************)
Store(c, ti, s) == [cache |-> c, tagIndex |-> ti, stats |-> s]

CurStore == Store(cache, tagIndex, stats)

\* Map.has / Map.get on the entries
HasKey(c, key) == \E i \in 1..Len(c) : c[i].key = key

Lookup(c, key) == c[CHOOSE i \in 1..Len(c) : c[i].key = key]

\* Map.delete on the entries: the order of the others is kept
MapDelete(c, key) == SelectSeq(c, LAMBDA e : e.key # key)

Bump(s, field) == [s EXCEPT ![field] = @ + 1]

\* a plausible slip: the entry is deleted and the tag index is left as it was
RemoveKeepingIndex(S, key) == [S EXCEPT !.cache = MapDelete(S.cache, key)]

\* CacheManager._remove
Remove(S, key) ==
  IF ~HasKey(S.cache, key) THEN S
  ELSE LET entry == Lookup(S.cache, key)
           ti == S.tagIndex
           \* tagKeys.delete(key); the tag goes when its set is empty
           kept == {t \in DOMAIN ti : ~(t \in entry.tags /\ ti[t] \ {key} = {})}
       IN  [S EXCEPT !.cache = MapDelete(S.cache, key),
                     !.tagIndex = [t \in kept |->
                        IF t \in entry.tags THEN ti[t] \ {key} ELSE ti[t]]]

\* CacheManager._evictLRU: the first key of the Map
EvictLRU(S) ==
  IF Len(S.cache) = 0 THEN S
  ELSE [Remove(S, S.cache[1].key) EXCEPT !.stats = Bump(S.stats, "evictions")]

\* a plausible slip: > for >=, so that a full store is not evicted from
RECURSIVE EvictWhileOver(_, _)
EvictWhileOver(S, cap) ==
  IF Len(S.cache) > cap THEN EvictWhileOver(EvictLRU(S), cap) ELSE S

\* while (this.cache.size >= this.maxEntries) this._evictLRU()
RECURSIVE EvictWhileFull(_, _)
EvictWhileFull(S, cap) ==
  IF Len(S.cache) >= cap /\ Len(S.cache) > 0
  THEN EvictWhileFull(EvictLRU(S), cap)
  ELSE S

\* the tag index update at the end of set
IndexTags(ti, key, tags) ==
  [t \in DOMAIN ti \cup tags |->
     IF t \in tags
     THEN (IF t \in DOMAIN ti THEN ti[t] ELSE {}) \cup {key}
     ELSE ti[t]]

\* CacheManager.set(key, value, {ttl, tags}) at time t
CacheSet(S, cap, key, value, ttlOpt, tags, t) ==
  LET S1 == IF HasKey(S.cache, key) THEN Remove(S, key) ELSE S
      S2 == EvictWhileFull(S1, cap)
      entry == CacheEntry(key, value,
                          IF ttlOpt # 0 THEN ttlOpt ELSE DefaultTTL, tags, t)
  IN  [S2 EXCEPT !.cache = Append(S2.cache, entry),
                 !.tagIndex = IndexTags(S2.tagIndex, key, entry.tags)]

\* a plausible slip: a hit that does not move the entry to the end of the Map
CacheGetNoReorder(S, key, t) ==
  IF ~HasKey(S.cache, key)
  THEN [store |-> [S EXCEPT !.stats = Bump(S.stats, "misses")], ret |-> Null]
  ELSE LET entry == Lookup(S.cache, key) IN
       IF isExpired(entry, t)
       THEN [store |-> [Remove(S, key) EXCEPT !.stats = Bump(S.stats, "misses")],
             ret |-> Null]
       ELSE [store |-> [S EXCEPT !.stats = Bump(S.stats, "hits")],
             ret |-> entry.value]

\* CacheManager.get(key) at time t: the new store and the returned value
CacheGet(S, key, t) ==
  IF ~HasKey(S.cache, key)
  THEN [store |-> [S EXCEPT !.stats = Bump(S.stats, "misses")], ret |-> Null]
  ELSE LET entry == Lookup(S.cache, key) IN
       IF isExpired(entry, t)
       THEN [store |-> [Remove(S, key) EXCEPT !.stats = Bump(S.stats, "misses")],
             ret |-> Null]
       ELSE [store |-> [S EXCEPT !.stats = Bump(S.stats, "hits"),
                                 !.cache = Append(MapDelete(S.cache, key), entry)],
             ret |-> entry.value]

\* CacheManager.has(key) at time t
CacheHas(S, key, t) ==
  IF ~HasKey(S.cache, key) THEN [store |-> S, ret |-> FALSE]
  ELSE IF isExpired(Lookup(S.cache, key), t)
       THEN [store |-> Remove(S, key), ret |-> FALSE]
       ELSE [store |-> S, ret |-> TRUE]

\* CacheManager.invalidate(key)
CacheInvalidate(S, key) ==
  [Remove(S, key) EXCEPT !.stats = Bump(S.stats, "invalidations")]

\* keys.forEach(key => { this._remove(key); count++ }) over a Set of keys
RECURSIVE RemoveEach(_, _, _)
RemoveEach(S, keys, count) ==
  IF keys = {} THEN [store |-> S, ret |-> count]
  ELSE LET key == CHOOSE k \in keys : TRUE
       IN  RemoveEach(Remove(S, key), keys \ {key}, count + 1)

\* a plausible slip: the tag is dropped from the index, its entries are kept
CacheInvalidateByTagIndexOnly(S, tag) ==
  IF tag \notin DOMAIN S.tagIndex THEN [store |-> S, ret |-> 0]
  ELSE LET ti == S.tagIndex
           n == Cardinality(ti[tag])
       IN  [store |-> [S EXCEPT
                         !.tagIndex = [t \in DOMAIN ti \ {tag} |-> ti[t]],
                         !.stats = [@ EXCEPT !.invalidations = @ + n]],
            ret |-> n]

\* CacheManager.invalidateByTag(tag)
CacheInvalidateByTag(S, tag) ==
  IF tag \notin DOMAIN S.tagIndex THEN [store |-> S, ret |-> 0]
  ELSE LET r == RemoveEach(S, S.tagIndex[tag], 0)
           ti == r.store.tagIndex
       IN  [store |-> [r.store EXCEPT
                         !.tagIndex = [t \in DOMAIN ti \ {tag} |-> ti[t]],
                         !.stats = [@ EXCEPT !.invalidations = @ + r.ret]],
            ret |-> r.ret]

\* regex.test(key) for the patterns of Patterns
RegexTest(pattern, key) ==
  CASE pattern = "^[ab]" -> key \in {"a", "b"}
    [] pattern = "^z" -> FALSE

\* CacheManager.invalidateByPattern(pattern)
CacheInvalidateByPattern(S, pattern) ==
  LET keysToRemove == {S.cache[i].key : i \in
                         {j \in 1..Len(S.cache) : RegexTest(pattern, S.cache[j].key)}}
      r == RemoveEach(S, keysToRemove, 0)
  IN  [store |-> [r.store EXCEPT
                    !.stats = [@ EXCEPT !.invalidations = @ + r.ret]],
       ret |-> r.ret]

\* CacheManager.getStale(key)
CacheGetStale(S, key) ==
  IF ~HasKey(S.cache, key) THEN Null ELSE Lookup(S.cache, key).value

\* CacheManager.clear()
CacheClear(S) == [S EXCEPT !.cache = <<>>, !.tagIndex = <<>>]

(***************************************************************************)
(* Observer of recency: the stored keys, least recently used first, where  *)
(* a use is a set or a get that returned the value                         *)
(***************************************************************************)
Touch(r, key) == Append(SelectSeq(r, LAMBDA k : k # key), key)

StoredKeys(c) == {c[i].key : i \in 1..Len(c)}

Stored(r, c) == SelectSeq(r, LAMBDA k : k \in StoredKeys(c))

(***************************************************************************)
(* CacheSpec: any sequence of public calls on one CacheManager, with the   *)
(* clock advancing between calls                                           *)
(***************************************************************************)
StatsOk(s) == s.hits + s.misses + s.evictions + s.invalidations <= MaxStat

\* install the store a call produced
Install(S) ==
  /\ StatsOk(S.stats)
  /\ cache' = S.cache
  /\ tagIndex' = S.tagIndex
  /\ stats' = S.stats

\* the observation of a call that returned ret and left the entries c
Called(op, ret, c) ==
  [op |-> op, ret |-> ret, removed |-> StoredKeys(cache) \ StoredKeys(c)]

CacheInit ==
  /\ cache = <<>>
  /\ tagIndex = <<>>
  /\ stats = [hits |-> 0, misses |-> 0, evictions |-> 0, invalidations |-> 0]
  /\ maxEntries \in Capacities
  /\ now = 0
  /\ recency = <<>>
  /\ lastOp = [op |-> "new", ret |-> Null, removed |-> {}]

Set(key, value, ttlOpt, tags) ==
  LET S == CacheSet(CurStore, maxEntries, key, value, ttlOpt, tags, now) IN
  /\ Install(S)
  /\ recency' = Stored(Touch(recency, key), S.cache)
  /\ lastOp' = Called("set", Null, S.cache)
  /\ UNCHANGED <<maxEntries, now, strategyVars, sessionVars, serviceVars>>

Get(key) ==
  LET r == CacheGet(CurStore, key, now) IN
  /\ Install(r.store)
  /\ recency' = Stored(IF HasKey(r.store.cache, key) THEN Touch(recency, key)
                       ELSE recency,
                       r.store.cache)
  /\ lastOp' = Called("get", r.ret, r.store.cache)
  /\ UNCHANGED <<maxEntries, now, strategyVars, sessionVars, serviceVars>>

Has(key) ==
  LET r == CacheHas(CurStore, key, now) IN
  /\ Install(r.store)
  /\ recency' = Stored(recency, r.store.cache)
  /\ lastOp' = Called("has", IF r.ret THEN "true" ELSE "false", r.store.cache)
  /\ UNCHANGED <<maxEntries, now, strategyVars, sessionVars, serviceVars>>

GetStale(key) ==
  /\ lastOp' = Called("getStale", CacheGetStale(CurStore, key), cache)
  /\ UNCHANGED <<cache, tagIndex, stats, maxEntries, now, recency, strategyVars, sessionVars, serviceVars>>

Invalidate(key) ==
  LET S == CacheInvalidate(CurStore, key) IN
  /\ Install(S)
  /\ recency' = Stored(recency, S.cache)
  /\ lastOp' = Called("invalidate", Null, S.cache)
  /\ UNCHANGED <<maxEntries, now, strategyVars, sessionVars, serviceVars>>

InvalidateByTag(tag) ==
  LET r == CacheInvalidateByTag(CurStore, tag) IN
  /\ Install(r.store)
  /\ recency' = Stored(recency, r.store.cache)
  /\ lastOp' = Called("invalidateByTag", ToString(r.ret), r.store.cache)
  /\ UNCHANGED <<maxEntries, now, strategyVars, sessionVars, serviceVars>>

InvalidateByPattern(pattern) ==
  LET r == CacheInvalidateByPattern(CurStore, pattern) IN
  /\ Install(r.store)
  /\ recency' = Stored(recency, r.store.cache)
  /\ lastOp' = Called("invalidateByPattern", ToString(r.ret), r.store.cache)
  /\ UNCHANGED <<maxEntries, now, strategyVars, sessionVars, serviceVars>>

Clear ==
  /\ Install(CacheClear(CurStore))
  /\ recency' = <<>>
  /\ lastOp' = Called("clear", Null, <<>>)
  /\ UNCHANGED <<maxEntries, now, strategyVars, sessionVars, serviceVars>>

\* time passes between two calls
Tick ==
  /\ now < MaxTime
  /\ now' = now + 1
  /\ UNCHANGED <<cache, tagIndex, stats, maxEntries, recency, lastOp, strategyVars, sessionVars, serviceVars>>

CacheNext ==
  \/ \E k \in Keys, o \in SetOptions : Set(k, o.value, o.ttl, o.tags)
  \/ \E k \in Keys : Get(k)
  \/ \E k \in Keys : Has(k)
  \/ \E k \in Keys : GetStale(k)
  \/ \E k \in Keys : Invalidate(k)
  \/ \E t \in Tags : InvalidateByTag(t)
  \/ \E p \in Patterns : InvalidateByPattern(p)
  \/ Clear
  \/ Tick


(***************************************************************************)
(* Cache strategies. A call is a record: its arguments, the state of its   *)
(* fetch (phase), the number of fetchFn invocations, what the call         *)
(* returned or settled with (result), the revalidating handle of           *)
(* staleWhileRevalidate and the callback it invoked (notified).            *)
(***************************************************************************)
Pending == [kind |-> "pending", data |-> Null, source |-> Null,
            stale |-> FALSE, error |-> Null]

\* a promise resolved with { data, source, stale, error }
Resolved(data, source, stale, error) ==
  [kind |-> "resolved", data |-> data, source |-> source,
   stale |-> stale, error |-> error]

\* a promise rejected with error
Rejected(error) ==
  [kind |-> "rejected", data |-> Null, source |-> Null,
   stale |-> FALSE, error |-> error]

\* an object returned synchronously (staleWhileRevalidate with a cached value)
Returned(data, source, stale) ==
  [kind |-> "returned", data |-> data, source |-> source,
   stale |-> stale, error |-> Null]

NoCallback == [cb |-> "none", arg |-> Null]

\* a slot no call was made in yet
NoCall ==
  [strategy |-> "none", key |-> Null,
   opts |-> [ttl |-> 0, tags |-> {}, callbacks |-> FALSE], phase |-> "idle",
   fetches |-> 0, result |-> Pending, revalidating |-> "none",
   notified |-> NoCallback]

NewCall(strategy, key, opts) ==
  [strategy |-> strategy, key |-> key, opts |-> opts, phase |-> "fetching",
   fetches |-> 1, result |-> Pending, revalidating |-> "none",
   notified |-> NoCallback]

\* cacheFirst up to its first await: the new store and the call
CacheFirstCall(S, key, opts, t) ==
  LET r == CacheGet(S, key, t) IN
  IF r.ret # Null
  THEN [store |-> r.store,
        call |-> [NewCall("cacheFirst", key, opts) EXCEPT
                    !.phase = "settled", !.fetches = 0,
                    !.result = Resolved(r.ret, "cache", FALSE, Null)]]
  ELSE [store |-> r.store, call |-> NewCall("cacheFirst", key, opts)]

\* a plausible slip: a value is not set over an entry that was stored while
\* the fetch was in flight
CacheFirstResolveGuarded(S, cap, c, data, t) ==
  [store |-> IF HasKey(S.cache, c.key) THEN S
             ELSE CacheSet(S, cap, c.key, data, c.opts.ttl, c.opts.tags, t),
   call |-> [c EXCEPT !.phase = "settled",
                      !.result = Resolved(data, "network", FALSE, Null)]]

\* cacheFirst after await fetchFn() has resolved with data
CacheFirstResolve(S, cap, c, data, t) ==
  [store |-> CacheSet(S, cap, c.key, data, c.opts.ttl, c.opts.tags, t),
   call |-> [c EXCEPT !.phase = "settled",
                      !.result = Resolved(data, "network", FALSE, Null)]]

\* cacheFirst when await fetchFn() throws: the error leaves the function
CacheFirstReject(S, c, error) ==
  [store |-> S,
   call |-> [c EXCEPT !.phase = "settled", !.result = Rejected(error)]]

\* networkFirst up to its await: fetchFn() is invoked
NetworkFirstCall(S, key, opts) ==
  [store |-> S, call |-> NewCall("networkFirst", key, opts)]

\* networkFirst after await fetchFn() has resolved with data
NetworkFirstResolve(S, cap, c, data, t) ==
  [store |-> CacheSet(S, cap, c.key, data, c.opts.ttl, c.opts.tags, t),
   call |-> [c EXCEPT !.phase = "settled",
                      !.result = Resolved(data, "network", FALSE, Null)]]

\* networkFirst's catch block
NetworkFirstReject(S, c, error) ==
  LET cached == CacheGetStale(S, c.key) IN
  [store |-> S,
   call |-> [c EXCEPT !.phase = "settled",
                      !.result = IF cached # Null
                                 THEN Resolved(cached, "cache", TRUE, error)
                                 ELSE Rejected(error)]]

\* staleWhileRevalidate up to its return
StaleWhileRevalidateCall(S, key, opts, t) ==
  LET cached == CacheGetStale(S, key)
      isFresh == CacheHas(S, key, t)
      c == [NewCall("staleWhileRevalidate", key, opts) EXCEPT
              !.revalidating = "pending"]
  IN  [store |-> isFresh.store,
       call |-> IF cached # Null
                THEN [c EXCEPT !.result = Returned(cached, "cache", ~isFresh.ret)]
                ELSE c]

\* revalidatePromise.then(data => ...) of the no-cache path, with the value
\* data the revalidation resolved to and the error recorded in fetchError
WaitForNetwork(data, fetchError) ==
  IF data = Null
  THEN Rejected(IF fetchError # Null THEN fetchError ELSE GenericError)
  ELSE Resolved(data, "network", FALSE, Null)

\* staleWhileRevalidate: fetchFn() resolves with data (.then handler, and the
\* continuation of the no-cache path)
StaleWhileRevalidateResolve(S, cap, c, data, t) ==
  [store |-> CacheSet(S, cap, c.key, data, c.opts.ttl, c.opts.tags, t),
   call |-> [c EXCEPT
      !.phase = "settled",
      !.revalidating = data,
      !.notified = IF c.opts.callbacks
                   THEN [cb |-> "onRevalidated", arg |-> data] ELSE @,
      !.result = IF c.result.kind = "pending"
                 THEN WaitForNetwork(data, Null) ELSE @]]

\* staleWhileRevalidate: fetchFn() rejects with error (.catch handler, and the
\* continuation of the no-cache path)
StaleWhileRevalidateReject(S, c, error) ==
  LET fetchError == error IN
  [store |-> S,
   call |-> [c EXCEPT
      !.phase = "settled",
      !.revalidating = Null,
      !.notified = IF c.opts.callbacks
                   THEN [cb |-> "onRevalidateError", arg |-> error] ELSE @,
      !.result = IF c.result.kind = "pending"
                 THEN WaitForNetwork(Null, fetchError) ELSE @]]

(***************************************************************************)
(* StrategySpec: strategy calls on one CacheManager whose fetches settle   *)
(* in any order, interleaved with other users' set and invalidate calls    *)
(* and with the clock                                                      *)
(***************************************************************************)
\* install the store and the call record i a step of a strategy produced
Proceed(r, i) ==
  /\ Install(r.store)
  /\ calls' = [calls EXCEPT ![i] = r.call]
  /\ UNCHANGED <<maxEntries, now, recency, lastOp, sessionVars, serviceVars>>

CallCacheFirst(i, key, opts) ==
  /\ calls[i].phase # "fetching"
  /\ Proceed(CacheFirstCall(CurStore, key, opts, now), i)

CallNetworkFirst(i, key, opts) ==
  /\ calls[i].phase # "fetching"
  /\ Proceed(NetworkFirstCall(CurStore, key, opts), i)

CallStaleWhileRevalidate(i, key, opts) ==
  /\ calls[i].phase # "fetching"
  /\ Proceed(StaleWhileRevalidateCall(CurStore, key, opts, now), i)

\* the fetch of call i resolves with data
FetchResolves(i, data) ==
  /\ calls[i].phase = "fetching"
  /\ LET c == calls[i] IN
     Proceed(CASE c.strategy = "cacheFirst" ->
                    CacheFirstResolve(CurStore, maxEntries, c, data, now)
               [] c.strategy = "networkFirst" ->
                    NetworkFirstResolve(CurStore, maxEntries, c, data, now)
               [] c.strategy = "staleWhileRevalidate" ->
                    StaleWhileRevalidateResolve(CurStore, maxEntries, c, data, now),
             i)

\* the fetch of call i rejects with error
FetchRejects(i, error) ==
  /\ calls[i].phase = "fetching"
  /\ LET c == calls[i] IN
     Proceed(CASE c.strategy = "cacheFirst" -> CacheFirstReject(CurStore, c, error)
               [] c.strategy = "networkFirst" -> NetworkFirstReject(CurStore, c, error)
               [] c.strategy = "staleWhileRevalidate" ->
                    StaleWhileRevalidateReject(CurStore, c, error),
             i)

\* another user of the store sets a key
OtherSet(key, value, ttlOpt, tags) ==
  /\ Install(CacheSet(CurStore, maxEntries, key, value, ttlOpt, tags, now))
  /\ UNCHANGED <<maxEntries, now, recency, lastOp, strategyVars, sessionVars, serviceVars>>

\* another user of the store invalidates a key
OtherInvalidate(key) ==
  /\ Install(CacheInvalidate(CurStore, key))
  /\ UNCHANGED <<maxEntries, now, recency, lastOp, strategyVars, sessionVars, serviceVars>>

StrategyNext ==
  \/ \E i \in CallSlots, k \in StrategyKeys, o \in StrategyOptions :
       CallCacheFirst(i, k, o)
  \/ \E i \in CallSlots, k \in StrategyKeys, o \in StrategyOptions :
       CallNetworkFirst(i, k, o)
  \/ \E i \in CallSlots, k \in StrategyKeys, o \in StrategyOptions :
       CallStaleWhileRevalidate(i, k, o)
  \/ \E i \in CallSlots, v \in FetchValues : FetchResolves(i, v)
  \/ \E i \in CallSlots, e \in Errors : FetchRejects(i, e)
  \/ \E k \in OtherKeys, o \in SetOptions : OtherSet(k, o.value, o.ttl, o.tags)
  \/ \E k \in OtherKeys : OtherInvalidate(k)
  \/ Tick

(***************************************************************************)
(* The reconnect delay of _scheduleReconnect                               *)
(***************************************************************************)
RECURSIVE Pow2(_)
\* Math.pow(2, n)
Pow2(n) == IF n = 0 THEN 1 ELSE 2 * Pow2(n - 1)

Min(a, b) == IF a <= b THEN a ELSE b

\* a plausible slip: the delay is not capped
ReconnectDelayUncapped(base, maxDelay, attempt, jitter) ==
  base * Pow2(attempt - 1) + jitter

\* the delay of reconnect attempt number attempt
ReconnectDelay(base, maxDelay, attempt, jitter) ==
  Min(base * Pow2(attempt - 1) + jitter, maxDelay)

\* no delay was computed
NoBackoff ==
  [baseReconnectDelay |-> 1000, maxReconnectDelay |-> 30000,
   reconnectAttempts |-> 0, jitter |-> 0, delay |-> 0]

BackoffInit ==
  backoff \in {[NoBackoff EXCEPT !.baseReconnectDelay = b,
                                 !.maxReconnectDelay = m] :
                 b \in BaseDelays, m \in MaxDelays}

\* _scheduleReconnect below the cap: the attempt is counted and its delay
\* computed with the jitter drawn
ScheduleDelay(jitter) ==
  /\ backoff.reconnectAttempts < MaxBackoffAttempts
  /\ backoff' =
       [backoff EXCEPT
          !.reconnectAttempts = @ + 1,
          !.jitter = jitter,
          !.delay = ReconnectDelay(backoff.baseReconnectDelay,
                                   backoff.maxReconnectDelay,
                                   backoff.reconnectAttempts + 1, jitter)]
  /\ UNCHANGED <<cacheVars, strategyVars, manager, sockets, orphans,
                 observed, unsubscribes, serviceVars>>

\* _handleOpen: the attempts start again
BackoffReset ==
  /\ backoff.reconnectAttempts > 0
  /\ backoff' = [backoff EXCEPT !.reconnectAttempts = 0, !.jitter = 0,
                                !.delay = 0]
  /\ UNCHANGED <<cacheVars, strategyVars, manager, sockets, orphans,
                 observed, unsubscribes, serviceVars>>

BackoffNext ==
  \/ \E j \in Jitters : ScheduleDelay(j)
  \/ BackoffReset

(***************************************************************************)
(* WebSocketManager. W is the manager with what surrounds it: the sockets  *)
(* it has built, the timers it has lost track of and what was observed of  *)
(* it, [mgr, socks, orphans, log]; thrown says that the code that ran      *)
(* last has thrown, so that what follows it in the same function is        *)
(* skipped.                                                                *)
(***************************************************************************)
\* new Map(): no type has handlers
NoHandlers == [t \in {} |-> <<>>]

\* options: every callback is null
NoCallbacks == [c \in CallbackNames |-> "null"]

\* the options of a manager that was given none
DefaultOptions == [authToken |-> FALSE, callbacks |-> NoCallbacks]

\* constructor(url, options); url says whether new WebSocket(url) throws
NewManagerWith(url, options) ==
  [url |-> url, options |-> options,
   ws |-> 0, state |-> "CLOSED", reconnectAttempts |-> 0,
   reconnectTimer |-> "null", heartbeatTimer |-> "null",
   messageQueue |-> <<>>, messageHandlers |-> NoHandlers,
   messageIdCounter |-> 0,
   isIntentionallyClosed |-> FALSE, authenticated |-> FALSE,
   connectionId |-> Null, lastHeartbeatAt |-> Null, heartbeatMissCount |-> 0,
   messageSequence |-> 0, outOfOrderCount |-> 0, lastReceivedSequence |-> -1,
   flushing |-> FALSE]

NewManager(url) == NewManagerWith(url, DefaultOptions)

\* new WebSocket(url, protocols); deadCloses counts the close(4000) calls of
\* the heartbeat monitor on it (observer)
NewSocket == [readyState |-> "CONNECTING", byDisconnect |-> FALSE, deadCloses |-> 0]

\* nothing was transmitted, nothing delivered, no callback has called
\* disconnect() or destroy() since the application last called connect(),
\* and destroy() was not the last public method to run
NoLog == [wire |-> <<>>, delivered |-> <<>>, quiet |-> FALSE, destroyed |-> FALSE]

\* WebSocket.close(): a socket that is connecting or open starts closing
SocketClose(socks, id) ==
  IF id # 0 /\ socks[id].readyState \in {"CONNECTING", "OPEN"}
  THEN [socks EXCEPT ![id].readyState = "CLOSING"]
  ELSE socks

\* this.ws && this.ws.readyState === WS_STATES.OPEN
IsOpen(W) == W.mgr.ws # 0 /\ W.socks[W.mgr.ws].readyState = "OPEN"

\* _clearTimers: the timers the fields hold are cancelled
ClearTimers(m) == [m EXCEPT !.reconnectTimer = "null", !.heartbeatTimer = "null"]

\* disconnect(code, reason)
Disconnect(W) ==
  LET id == W.mgr.ws
      closing == id # 0 /\ W.socks[id].readyState \in {"CONNECTING", "OPEN"}
  IN  [W EXCEPT
         !.mgr = [ClearTimers(@) EXCEPT !.isIntentionallyClosed = TRUE,
                                        !.authenticated = FALSE,
                                        !.connectionId = Null,
                                        !.state = "CLOSED"],
         !.socks = IF closing
                   THEN [SocketClose(@, id) EXCEPT ![id].byDisconnect = TRUE]
                   ELSE @]

\* destroy()
Destroy(W) ==
  [Disconnect(W) EXCEPT !.mgr.messageHandlers = NoHandlers,
                        !.mgr.messageQueue = <<>>,
                        !.log.destroyed = TRUE]

\* what a function the application passed does when it is called
Behave(W, does) ==
  CASE does = "disconnect" -> [Disconnect(W) EXCEPT !.log.quiet = TRUE]
    [] does = "destroy" -> [Destroy(W) EXCEPT !.log.quiet = TRUE]
    [] does = "throws" -> [W EXCEPT !.thrown = TRUE]
    [] OTHER -> W

\* if (this.options.name) this.options.name(...)
Callback(W, name) == Behave(W, W.mgr.options.callbacks[name])

\* a plausible slip: the cap is tested with > instead of >=
ScheduleReconnectPastCap(W) ==
  IF W.mgr.reconnectAttempts > MaxReconnectAttempts THEN W
  ELSE LET W1 == Callback([W EXCEPT !.mgr.reconnectAttempts = @ + 1],
                          "onReconnecting")
       IN  IF W1.thrown THEN W1
           ELSE [W1 EXCEPT
                   !.mgr.reconnectTimer = "pending",
                   !.orphans.reconnect =
                      IF W1.mgr.reconnectTimer = "pending" THEN @ + 1 ELSE @]

\* _scheduleReconnect: a pending timer the field held stays scheduled
ScheduleReconnect(W) ==
  IF W.mgr.reconnectAttempts >= MaxReconnectAttempts THEN W
  ELSE LET W1 == Callback([W EXCEPT !.mgr.reconnectAttempts = @ + 1],
                          "onReconnecting")
       IN  IF W1.thrown THEN W1
           ELSE [W1 EXCEPT
                   !.mgr.reconnectTimer = "pending",
                   !.orphans.reconnect =
                      IF W1.mgr.reconnectTimer = "pending" THEN @ + 1 ELSE @]

\* _startHeartbeatMonitor: a running interval the field held keeps running
StartHeartbeatMonitor(W) ==
  [W EXCEPT
     !.mgr.heartbeatMissCount = 0,
     !.mgr.lastHeartbeatAt = "recent",
     !.mgr.heartbeatTimer = "running",
     !.orphans.heartbeat =
        IF W.mgr.heartbeatTimer = "running" THEN @ + 1 ELSE @]

\* connect()
Connect(W) ==
  IF W.mgr.ws # 0 /\ W.mgr.state \in {"CONNECTING", "OPEN"} THEN W
  ELSE LET W1 == [W EXCEPT !.mgr.isIntentionallyClosed = FALSE,
                           !.mgr.state = "CONNECTING"]
       IN  IF W.mgr.url = "invalid"
           THEN ScheduleReconnect(W1)
           ELSE [W1 EXCEPT !.socks = Append(@, NewSocket),
                           !.mgr.ws = Len(W.socks) + 1]

\* _enqueueMessage
Enqueue(W, message) ==
  LET q == W.mgr.messageQueue
  IN  [W EXCEPT !.mgr.messageQueue =
         Append(IF Len(q) >= MaxQueueSize THEN Tail(q) ELSE q, message)]

\* _sendRaw; ok says that the socket's send accepts the message. Serialising
\* a payload that JSON.stringify rejects throws before the socket is reached
SendRaw(W, message, ok) ==
  IF message.payload = "bad" \/ ~ok
  THEN Enqueue(W, message)
  ELSE [W EXCEPT !.log.wire = Append(@, message.id)]

\* send(type, payload)
Send(W, type, payload, ok) ==
  LET id == W.mgr.messageIdCounter + 1
      message == [id |-> id, type |-> type, payload |-> payload]
      W1 == [W EXCEPT !.mgr.messageIdCounter = id]
  IN  IF IsOpen(W1) THEN SendRaw(W1, message, ok) ELSE Enqueue(W1, message)

\* the handlers of type, in the order they were added
HandlersOf(m, type) ==
  IF type \in DOMAIN m.messageHandlers THEN m.messageHandlers[type] ELSE <<>>

\* the elements of seq other than x, in their order
Without(seq, x) == SelectSeq(seq, LAMBDA y : y # x)

\* subscribe(type, handler), up to its return
Subscribe(W, type, handler) ==
  LET hs == HandlersOf(W.mgr, type)
      added == IF \E i \in 1..Len(hs) : hs[i] = handler
               THEN hs ELSE Append(hs, handler)
  IN  [W EXCEPT !.mgr.messageHandlers =
         [t \in DOMAIN @ \cup {type} |-> IF t = type THEN added ELSE @[t]]]

\* the function subscribe(type, handler) returned
Unsubscribe(W, type, handler) ==
  IF type \notin DOMAIN W.mgr.messageHandlers THEN W
  ELSE LET left == Without(W.mgr.messageHandlers[type], handler)
       IN  [W EXCEPT !.mgr.messageHandlers =
              IF left = <<>>
              THEN [t \in DOMAIN @ \ {type} |-> @[t]]
              ELSE [t \in DOMAIN @ |-> IF t = type THEN left ELSE @[t]]]

\* the delivery of an inbound message to a handler or to onMessage is noted
Deliver(W, to, message) ==
  [W EXCEPT !.log.delivered =
     Append(@, [to |-> to, type |-> message.type,
                sequence |-> message.sequence])]

RECURSIVE NotifyEach(_, _, _, _)
\* handlers.forEach: what a handler throws is caught and logged
NotifyEach(W, handlers, message, noted) ==
  IF handlers = <<>> THEN W
  ELSE LET handler == Head(handlers)
           W1 == IF noted THEN Deliver(W, handler, message) ELSE W
           W2 == [Behave(W1, handler) EXCEPT !.thrown = W.thrown]
       IN  NotifyEach(W2, Tail(handlers), message, noted)

\* _notifyHandlers(type, payload); noted says the call is the dispatch of an
\* inbound message
NotifyHandlers(W, message, noted) ==
  NotifyEach(W, HandlersOf(W.mgr, message.type), message, noted)

\* a notification the manager itself raises
Notice(type) == [type |-> type, sequence |-> Undefined]

\* trackMessageSequence(sequenceNum); a number n is <<n>>
TrackMessageSequence(W, sequenceNum) ==
  [W EXCEPT
     !.mgr.messageSequence = @ + 1,
     !.mgr.outOfOrderCount =
        IF sequenceNum # Undefined
             /\ sequenceNum[1] <= W.mgr.lastReceivedSequence
        THEN @ + 1 ELSE @,
     !.mgr.lastReceivedSequence =
        IF sequenceNum # Undefined THEN sequenceNum[1] ELSE @]

\* the rest of _handleOpen once the queue is flushed
FinishOpen(W) ==
  Callback(StartHeartbeatMonitor([W EXCEPT !.mgr.flushing = FALSE]), "onOpen")

\* _flushQueue at the test of its loop: it goes on while a message is queued
\* and the socket is open, and _handleOpen goes on when it ends
FlushQueue(W) ==
  IF W.mgr.messageQueue # <<>> /\ IsOpen(W)
  THEN [W EXCEPT !.mgr.flushing = TRUE]
  ELSE FinishOpen(W)

\* the body of the loop of _flushQueue, and the test that follows it
FlushOne(W, ok) ==
  LET message == Head(W.mgr.messageQueue)
  IN  FlushQueue(SendRaw([W EXCEPT !.mgr.messageQueue = Tail(@)], message, ok))

\* _handleOpen up to the loop of _flushQueue
HandleOpen(W) ==
  FlushQueue([W EXCEPT !.mgr.state = "OPEN", !.mgr.reconnectAttempts = 0])

\* _handleClose(event)
HandleClose(W) ==
  LET W1 == Callback([W EXCEPT !.mgr = ClearTimers([@ EXCEPT
                                         !.state = "CLOSED",
                                         !.authenticated = FALSE])],
                     "onClose")
  IN  IF W1.thrown THEN W1
      ELSE IF ~W1.mgr.isIntentionallyClosed THEN ScheduleReconnect(W1) ELSE W1

\* _handleError(error)
HandleError(W) == Callback(W, "onError")

\* the switch of _handleMessage
HandleInternal(W, type, ok) ==
  CASE type = "connection:established" ->
         LET W1 == [W EXCEPT !.mgr.connectionId = "clientId"]
         IN  IF W.mgr.options.authToken
             THEN Send(W1, "auth:token", "ok", ok) ELSE W1
    [] type = "auth:required" ->
         IF W.mgr.options.authToken
         THEN Send(W, "auth:token", "ok", ok) ELSE W
    [] type = "auth:success" ->
         Callback([W EXCEPT !.mgr.authenticated = TRUE], "onAuthSuccess")
    [] type = "auth:failed" ->
         Callback([W EXCEPT !.mgr.authenticated = FALSE], "onAuthFailed")
    [] type = "heartbeat:ping" ->
         [Send(W, "heartbeat:pong", "ok", ok) EXCEPT
            !.mgr.heartbeatMissCount = 0,
            !.mgr.lastHeartbeatAt = "recent"]
    [] OTHER -> W

\* _handleMessage(event) for a message that parses to an object with a type
HandleMessage(W, message, ok) ==
  LET W1 == HandleInternal(W, message.type, ok)
      W2 == NotifyHandlers(W1, message, TRUE)
  IN  IF W1.thrown THEN W1
      ELSE IF W.mgr.options.callbacks["onMessage"] # "null"
           THEN Callback(Deliver(W2, "onMessage", message), "onMessage")
           ELSE W2

\* a plausible slip: the connection is taken as dead one miss early
HeartbeatCheckEarly(W) ==
  IF W.mgr.lastHeartbeatAt # "overdue" THEN W
  ELSE LET W1 == NotifyHandlers([W EXCEPT !.mgr.heartbeatMissCount = @ + 1],
                                Notice("heartbeat:missed"), FALSE)
       IN  IF W1.mgr.heartbeatMissCount >= DeadAfterMisses - 1
           THEN LET W2 == NotifyHandlers(W1, Notice("heartbeat:dead"), FALSE)
                    id == W2.mgr.ws
                IN  IF id = 0 THEN W2
                    ELSE [W2 EXCEPT
                            !.socks = [SocketClose(@, id) EXCEPT
                                         ![id].deadCloses = @ + 1]]
           ELSE W1

\* the callback of the heartbeat interval
HeartbeatCheck(W) ==
  IF W.mgr.lastHeartbeatAt # "overdue" THEN W
  ELSE LET W1 == NotifyHandlers([W EXCEPT !.mgr.heartbeatMissCount = @ + 1],
                                Notice("heartbeat:missed"), FALSE)
       IN  IF W1.mgr.heartbeatMissCount >= DeadAfterMisses
           THEN LET W2 == NotifyHandlers(W1, Notice("heartbeat:dead"), FALSE)
                    id == W2.mgr.ws
                IN  IF id = 0 THEN W2
                    ELSE [W2 EXCEPT
                            !.socks = [SocketClose(@, id) EXCEPT
                                         ![id].deadCloses = @ + 1]]
           ELSE W1

(***************************************************************************)
(* ConnectionPool. P is the pool with the sessions it has built and the    *)
(* calls of acquire, [pool, sessions, callers, now].                       *)
(***************************************************************************)
\* new ConnectionPool({maxConnections})
NewPool(maxConnections) ==
  [maxConnections |-> maxConnections, connections |-> <<>>, waitQueue |-> <<>>]

\* no pool is in use
PoolInit ==
  /\ pool = NewPool(1)
  /\ poolSessions = <<>>
  /\ callers = <<>>

\* no request was made
ApiInit ==
  /\ inFlightRequests = <<>>
  /\ requests = <<>>
  /\ apiCalls = <<>>

InvalidatorInit ==
  /\ mutationRules = <<>>
  /\ registered = <<>>
  /\ mutation = [resourceType |-> <<>>, mutationType |-> <<>>,
                 payload |-> [id |-> 0], ret |-> 0]

\* the pool, the api client and the invalidator at rest
ServicesInit == PoolInit /\ ApiInit /\ InvalidatorInit

\* the session of a pooled manager, as the operators of WebSocketManager
\* take it
SessionOf(s) ==
  [mgr |-> s.mgr, socks |-> s.socks, orphans |-> s.orphans, log |-> s.log,
   thrown |-> FALSE]

\* the pooled manager with url after its session has become W
AsPooled(url, W) ==
  [url |-> url, mgr |-> W.mgr, socks |-> W.socks, orphans |-> W.orphans,
   log |-> W.log]

\* this.connections.get(url): the position of the entry of url, 0 for none
ConnectionAt(connections, url) ==
  IF \E k \in 1..Len(connections) : connections[k].url = url
  THEN CHOOSE k \in 1..Len(connections) : connections[k].url = url
  ELSE 0

\* this.connections.set(url, entry): an entry of the url is replaced where it
\* is, a new one goes last
ConnectionsSet(connections, url, entry) ==
  LET k == ConnectionAt(connections, url)
  IN  IF k = 0 THEN Append(connections, entry)
      ELSE [connections EXCEPT ![k] = entry]

\* this.connections.delete(url)
ConnectionsDelete(connections, url) ==
  SelectSeq(connections, LAMBDA c : c.url # url)

\* manager.getState().connected
Connected(P, session) == P.sessions[session].mgr.state = "OPEN"

\* manager.destroy() of session
DestroySession(P, session) ==
  LET s == P.sessions[session]
  IN  [P EXCEPT !.sessions[session] = AsPooled(s.url, Destroy(SessionOf(s)))]

\* _removeConnection(url)
RemoveConnection(P, url) ==
  LET k == ConnectionAt(P.pool.connections, url)
  IN  IF k = 0 THEN P
      ELSE [DestroySession(P, P.pool.connections[k].session) EXCEPT
              !.pool.connections = ConnectionsDelete(@, url)]

\* the positions of the idle connections
IdleAt(connections) ==
  {k \in 1..Len(connections) : connections[k].refCount = 0}

\* _evictIdle: of the idle connections the one used longest ago goes, the
\* first of them in the Map among equals
OldestIdleAt(connections) ==
  CHOOSE k \in IdleAt(connections) :
    \A j \in IdleAt(connections) :
      \/ connections[k].lastUsedAt < connections[j].lastUsedAt
      \/ connections[k].lastUsedAt = connections[j].lastUsedAt /\ k <= j

\* _evictIdle; it has evicted when a connection is gone
EvictIdle(P) ==
  IF IdleAt(P.pool.connections) = {} THEN P
  ELSE RemoveConnection(
         P, P.pool.connections[OldestIdleAt(P.pool.connections)].url)

\* the promise of caller i is resolved with session
Resolve(P, i, session) ==
  [P EXCEPT !.callers[i].status = "holding",
            !.callers[i].session = session,
            !.callers[i].settled = @ + 1]

\* the promise of caller i is rejected
Reject(P, i, error) ==
  [P EXCEPT !.callers[i].status = "rejected",
            !.callers[i].error = error,
            !.callers[i].settled = @ + 1]

\* acquire, from `new WebSocketManager` on: the new session connects and
\* takes the entry of the url
CreateConnection(P, i, url) ==
  LET session == Len(P.sessions) + 1
      W == Connect([mgr |-> NewManager("valid"), socks |-> <<>>,
                    orphans |-> [reconnect |-> 0, heartbeat |-> 0],
                    log |-> NoLog, thrown |-> FALSE])
      entry == [url |-> url, session |-> session, refCount |-> 1,
                createdAt |-> P.now, lastUsedAt |-> P.now]
  IN  Resolve([P EXCEPT
                 !.sessions = Append(@, AsPooled(url, W)),
                 !.pool.connections = ConnectionsSet(@, url, entry)],
              i, session)

\* a plausible slip: release hands the freed slot to the caller that began
\* to wait last
LastWaiter(waitQueue) ==
  [waiter |-> waitQueue[Len(waitQueue)],
   rest |-> SubSeq(waitQueue, 1, Len(waitQueue) - 1)]

\* this.waitQueue.shift()
FirstWaiter(waitQueue) == [waiter |-> Head(waitQueue), rest |-> Tail(waitQueue)]

\* acquire(url, connectionOptions), called for caller i
Acquire(P, i, url) ==
  LET connections == P.pool.connections
      k == ConnectionAt(connections, url)
      full == Len(connections) >= P.pool.maxConnections
      P1 == IF full THEN EvictIdle(P) ELSE P
      evicted == Len(P1.pool.connections) < Len(connections)
  IN  IF k # 0 /\ Connected(P, connections[k].session)
      THEN Resolve([P EXCEPT !.pool.connections[k].refCount = @ + 1],
                   i, connections[k].session)
      ELSE IF full /\ ~evicted
           THEN [P EXCEPT !.pool.waitQueue = Append(@, i),
                          !.callers[i].status = "waiting",
                          !.callers[i].timeout = "pending"]
           ELSE CreateConnection(P1, i, url)

\* release(url)
Release(P, url) ==
  LET k == ConnectionAt(P.pool.connections, url)
  IN  IF k = 0 THEN P
      ELSE LET refCount == IF P.pool.connections[k].refCount - 1 > 0
                           THEN P.pool.connections[k].refCount - 1 ELSE 0
               P1 == [P EXCEPT !.pool.connections[k].refCount = refCount,
                               !.pool.connections[k].lastUsedAt = P.now]
           IN  IF refCount = 0 /\ P.pool.waitQueue # <<>>
               THEN LET first == FirstWaiter(P.pool.waitQueue)
                        P2 == [P1 EXCEPT
                                 !.pool.waitQueue = first.rest,
                                 !.callers[first.waiter].timeout = "cleared"]
                    IN  Acquire(RemoveConnection(P2, url), first.waiter,
                                P.callers[first.waiter].url)
               ELSE P1

\* the elements of seq but the one at position k
DropAt(seq, k) == SubSeq(seq, 1, k - 1) \o SubSeq(seq, k + 1, Len(seq))

\* a plausible slip: the timeout rejects and leaves the caller in the queue
AcquireTimeoutKeepsWaiter(P, i) ==
  Reject([P EXCEPT !.callers[i].timeout = "fired"], i, "exhausted")

\* the callback of the timeout of waiting caller i
AcquireTimeout(P, i) ==
  LET waitQueue == P.pool.waitQueue
      P1 == [P EXCEPT !.callers[i].timeout = "fired"]
      P2 == IF \E k \in 1..Len(waitQueue) : waitQueue[k] = i
            THEN [P1 EXCEPT !.pool.waitQueue =
                    DropAt(@, CHOOSE k \in 1..Len(waitQueue) : waitQueue[k] = i)]
            ELSE P1
  IN  Reject(P2, i, "exhausted")

RECURSIVE RejectEach(_, _)
\* this.waitQueue.forEach: the timeout is cleared and the caller rejected
RejectEach(P, waiters) ==
  IF waiters = <<>> THEN P
  ELSE RejectEach(
         Reject([P EXCEPT !.callers[Head(waiters)].timeout = "cleared"],
                Head(waiters), "destroyed"),
         Tail(waiters))

RECURSIVE DestroyEach(_, _)
\* this.connections.forEach: conn.manager.destroy()
DestroyEach(P, connections) ==
  IF connections = <<>> THEN P
  ELSE DestroyEach(DestroySession(P, Head(connections).session),
                   Tail(connections))

\* destroyAll()
DestroyAll(P) ==
  LET P1 == [RejectEach(P, P.pool.waitQueue) EXCEPT !.pool.waitQueue = <<>>]
  IN  [DestroyEach(P1, P1.pool.connections) EXCEPT !.pool.connections = <<>>]

(***************************************************************************)
(* The steps of a ConnectionPool: the calls of its users, the timeouts of  *)
(* the waiting callers and the events of the pooled sessions.              *)
(***************************************************************************)
CurPool ==
  [pool |-> pool, sessions |-> poolSessions, callers |-> callers, now |-> now]

PoolBecome(P) ==
  /\ Len(P.sessions) <= MaxPoolSessions
  /\ \A s \in 1..Len(P.sessions) : Len(P.sessions[s].socks) <= MaxPoolSockets
  /\ pool' = P.pool
  /\ poolSessions' = P.sessions
  /\ callers' = P.callers
  /\ UNCHANGED <<cacheVars, strategyVars, sessionVars, apiVars, invalidatorVars>>

\* a call of acquire(url) before it has run
NewCaller(url) ==
  [url |-> url, status |-> "called", session |-> 0, timeout |-> "none",
   settled |-> 0, error |-> Null]

\* a user calls acquire(url)
CallAcquire(url) ==
  /\ Len(callers) < MaxCallers
  /\ PoolBecome(Acquire([CurPool EXCEPT !.callers = Append(@, NewCaller(url))],
                        Len(callers) + 1, url))

\* the user whose acquire was resolved calls release(url), once
CallRelease(i) ==
  /\ callers[i].status = "holding"
  /\ PoolBecome(Release([CurPool EXCEPT !.callers[i].status = "released"],
                        callers[i].url))

\* the timeout of waiting caller i fires
AcquireTimeoutFires(i) ==
  /\ callers[i].timeout = "pending"
  /\ PoolBecome(AcquireTimeout(CurPool, i))

\* the application calls destroyAll()
CallDestroyAll ==
  /\ callers # <<>>
  /\ PoolBecome(DestroyAll(CurPool))

\* the pooled session s after its session has become W. The events of a
\* destroyed session are left out: it is in no entry of the pool any more,
\* and the pool reads the state of the sessions of its entries only
Pooled(s, W) ==
  /\ ~poolSessions[s].log.destroyed
  /\ PoolBecome([CurPool EXCEPT !.sessions[s] = AsPooled(poolSessions[s].url, W)])

\* the open event of socket id of pooled session s
PoolSocketOpens(s, id) ==
  /\ poolSessions[s].socks[id].readyState = "CONNECTING"
  /\ Pooled(s, HandleOpen([SessionOf(poolSessions[s]) EXCEPT
                             !.socks[id].readyState = "OPEN"]))

\* the close event of socket id of pooled session s
PoolSocketCloses(s, id) ==
  /\ poolSessions[s].socks[id].readyState # "CLOSED"
  /\ Pooled(s, HandleClose([SessionOf(poolSessions[s]) EXCEPT
                              !.socks[id].readyState = "CLOSED"]))

\* the reconnect timeout of pooled session s fires
PoolReconnectTimerFires(s) ==
  /\ poolSessions[s].mgr.reconnectTimer = "pending"
  /\ Pooled(s, Connect([SessionOf(poolSessions[s]) EXCEPT
                          !.mgr.reconnectTimer = "fired"]))

\* a pool of either capacity and its users, within one tick of the clock
PoolNext ==
  \/ \E url \in PoolUrls : CallAcquire(url)
  \/ \E i \in 1..Len(callers) : CallRelease(i)
  \/ \E i \in 1..Len(callers) : AcquireTimeoutFires(i)
  \/ CallDestroyAll
  \/ \E s \in 1..Len(poolSessions), id \in 1..MaxPoolSockets :
       id <= Len(poolSessions[s].socks) /\ PoolSocketOpens(s, id)
  \/ \E s \in 1..Len(poolSessions), id \in 1..MaxPoolSockets :
       id <= Len(poolSessions[s].socks) /\ PoolSocketCloses(s, id)
  \/ \E s \in 1..Len(poolSessions) : PoolReconnectTimerFires(s)

(***************************************************************************)
(* apiClient: a request is the promise of the outermost _executeFetch; the *)
(* recursive calls of a retry settle it with what they settle with.        *)
(***************************************************************************)
MAX_RETRIES == 3
RETRY_DELAY_BASE == 1000

\* the defaults of the options of apiClient; signal is whether one is given
DefaultApiOptions ==
  [method |-> "GET", retry |-> TRUE, maxRetries |-> MAX_RETRIES,
   deduplicate |-> TRUE, signal |-> FALSE]

\* the options the callers give
ApiOptions ==
  {DefaultApiOptions,
   [DefaultApiOptions EXCEPT !.signal = TRUE],
   [DefaultApiOptions EXCEPT !.retry = FALSE],
   [DefaultApiOptions EXCEPT !.maxRetries = 1],
   [DefaultApiOptions EXCEPT !.deduplicate = FALSE],
   [DefaultApiOptions EXCEPT !.method = "POST"]}

\* what fetch resolves with: the status, the Retry-After header and whether
\* the body is JSON
Responses ==
  [status : {200, 404, 500}, retryAfter : {Null}, body : {"data", "garbled"}]
    \cup [status : {429}, retryAfter : RetryAfterHeaders, body : {"data"}]

\* what fetch rejects with when the network fails
NetworkError == [name |-> "TypeError", message |-> <<"Failed to fetch">>]

\* what fetch rejects with when the signal of request id is aborted without
\* a reason, controller.abort()
AbortError(id) ==
  [name |-> "AbortError", message |-> <<"The operation was aborted">>,
   of |-> id]

\* what fetch rejects with when the signal of request id is aborted with a
\* reason, controller.abort(reason): the reason
AbortReason(id) ==
  [name |-> "Error", message |-> <<"reason">>, of |-> id]

\* what fetch rejects with when the signal of request id is aborted
AbortErrors(id) == {AbortError(id), AbortReason(id)}

\* what response.json() throws
SyntaxError == [name |-> "SyntaxError", message |-> <<"Unexpected token">>]

\* new ApiError(message, status, data)
ApiError(message, status, data) ==
  [name |-> "ApiError", message |-> message, status |-> status, data |-> data]

\* new RateLimitError(retryAfter, data)
RateLimitError(retryAfter, data) ==
  [name |-> "RateLimitError", message |-> <<"Rate limited", retryAfter>>,
   status |-> 429, data |-> data, retryAfter |-> retryAfter]

RECURSIVE ParseInt(_)
\* parseInt(digits, 10)
ParseInt(digits) ==
  IF digits = <<>> THEN 0
  ELSE 10 * ParseInt(SubSeq(digits, 1, Len(digits) - 1)) + digits[Len(digits)]

\* response.ok
Ok(status) == status >= 200 /\ status <= 299

\* await response.json().catch(() => null)
JsonOrNull(body) == IF body = "garbled" THEN Null ELSE body

\* a plausible slip: a GET with a signal is de-duplicated too
DedupDespiteSignal(options) == options.method = "GET" /\ options.deduplicate

\* method === 'GET' && deduplicate && !signal
CanDedup(options) ==
  options.method = "GET" /\ options.deduplicate /\ ~options.signal

\* inFlightRequests.get(url): the position of the entry of url, 0 for none
InFlightAt(inFlight, url) ==
  IF \E k \in 1..Len(inFlight) : inFlight[k].url = url
  THEN CHOOSE k \in 1..Len(inFlight) : inFlight[k].url = url
  ELSE 0

\* a plausible slip: the entry of a settled request stays in the map
KeepEntry(inFlight, url) == inFlight

\* inFlightRequests.delete(url)
InFlightDelete(inFlight, url) == SelectSeq(inFlight, LAMBDA e : e.url # url)

\* the promise of a request is pending
NoOutcome == [rejected |-> FALSE, value |-> [name |-> "pending"]]

\* _executeFetch(url, {..., attempt: 0}) up to its `await fetch`
ExecuteFetch(url, options) ==
  [url |-> url, signal |-> options.signal, retry |-> options.retry,
   maxRetries |-> options.maxRetries, canDedup |-> CanDedup(options),
   attempt |-> 0, phase |-> "fetching", fetches |-> 1, delay |-> 0,
   outcome |-> NoOutcome]

\* apiClient(endpoint, options), where url is what it makes of the endpoint
ApiClient(A, url, options) ==
  LET k == InFlightAt(A.inFlightRequests, url)
      id == Len(A.requests) + 1
      call == [url |-> url, options |-> options]
  IN  IF CanDedup(options) /\ k # 0
      THEN [A EXCEPT !.apiCalls =
              Append(@, call @@ [request |-> A.inFlightRequests[k].request])]
      ELSE [A EXCEPT
              !.requests = Append(@, ExecuteFetch(url, options)),
              !.inFlightRequests =
                 IF CanDedup(options)
                 THEN Append(@, [url |-> url, request |-> id]) ELSE @,
              !.apiCalls = Append(@, call @@ [request |-> id])]

\* a plausible slip: the delay grows by RETRY_DELAY_BASE with each attempt
LinearDelay(attempt) == RETRY_DELAY_BASE * (attempt + 1)

\* RETRY_DELAY_BASE * Math.pow(2, attempt)
RetryDelay(attempt) == RETRY_DELAY_BASE * Pow2(attempt)

\* a plausible slip: the delay of a 429 is the Retry-After of the server
UncappedDelay(retryAfter) == retryAfter * 1000

\* Math.min(retryAfter, 5) * 1000
RateLimitDelay(retryAfter) == Min(retryAfter, 5) * 1000

\* error.name === 'AbortError'
IsAbortError(error) == error.name = "AbortError"

\* await _delay(delay), before the recursive call
Delay(rq, delay) == [rq EXCEPT !.phase = "delaying", !.delay = delay]

\* _executeFetch throws error out of its catch
Throw(rq, error) ==
  [rq EXCEPT !.phase = "settled",
             !.outcome = [rejected |-> TRUE, value |-> error]]

\* _executeFetch returns data
Return(rq, data) ==
  [rq EXCEPT !.phase = "settled",
             !.outcome = [rejected |-> FALSE,
                          value |-> [name |-> "data", data |-> data]]]

\* the catch of _executeFetch
Catch(rq, error) ==
  IF IsAbortError(error) THEN Throw(rq, error)
  ELSE IF error.name \in {"ApiError", "RateLimitError"} THEN Throw(rq, error)
  ELSE IF rq.retry /\ rq.attempt < rq.maxRetries
       THEN Delay(rq, RetryDelay(rq.attempt))
       ELSE Throw(rq, ApiError(error.message, 0, Null))

\* a plausible slip: a 429 is waited out and re-issued whatever the attempt
TryUnbudgeted(rq, response) ==
  IF response.status = 429
  THEN LET retryAfter ==
             ParseInt(IF response.retryAfter = Null THEN <<5>>
                      ELSE response.retryAfter)
           data == JsonOrNull(response.body)
       IN  IF rq.retry
           THEN Delay(rq, RateLimitDelay(retryAfter))
           ELSE Catch(rq, RateLimitError(retryAfter, data))
  ELSE IF response.status >= 500 /\ rq.retry /\ rq.attempt < rq.maxRetries
       THEN Delay(rq, RetryDelay(rq.attempt))
       ELSE IF ~Ok(response.status)
            THEN Catch(rq, ApiError(<<"Request failed with status",
                                      response.status>>,
                                    response.status,
                                    JsonOrNull(response.body)))
            ELSE IF response.body = "garbled" THEN Catch(rq, SyntaxError)
                 ELSE Return(rq, response.body)

\* the try of _executeFetch after fetch has resolved with response
Try(rq, response) ==
  IF response.status = 429
  THEN LET retryAfter ==
             ParseInt(IF response.retryAfter = Null THEN <<5>>
                      ELSE response.retryAfter)
           data == JsonOrNull(response.body)
       IN  IF rq.retry /\ rq.attempt < rq.maxRetries
           THEN Delay(rq, RateLimitDelay(retryAfter))
           ELSE Catch(rq, RateLimitError(retryAfter, data))
  ELSE IF response.status >= 500 /\ rq.retry /\ rq.attempt < rq.maxRetries
       THEN Delay(rq, RetryDelay(rq.attempt))
       ELSE IF ~Ok(response.status)
            THEN Catch(rq, ApiError(<<"Request failed with status",
                                      response.status>>,
                                    response.status,
                                    JsonOrNull(response.body)))
            ELSE IF response.body = "garbled" THEN Catch(rq, SyntaxError)
                 ELSE Return(rq, response.body)

\* the recursive _executeFetch(url, {...options, attempt: attempt + 1}) up to
\* its `await fetch`
Again(rq) ==
  [rq EXCEPT !.attempt = @ + 1, !.phase = "fetching", !.fetches = @ + 1,
             !.delay = 0]

\* request id has become rq: when it has settled, the reaction apiClient has
\* registered on a de-duplicable request takes its url out of the map before
\* any caller sees the outcome
Continue(A, id, rq) ==
  [A EXCEPT !.requests[id] = rq,
            !.inFlightRequests =
               IF rq.phase = "settled" /\ rq.canDedup
               THEN InFlightDelete(@, rq.url) ELSE @]

(***************************************************************************)
(* The steps of apiClient: the calls, what fetch settles with and the      *)
(* timers of the delays.                                                   *)
(***************************************************************************)
CurApi ==
  [inFlightRequests |-> inFlightRequests, requests |-> requests,
   apiCalls |-> apiCalls]

ApiBecome(A) ==
  /\ Len(A.requests) <= MaxApiRequests
  /\ inFlightRequests' = A.inFlightRequests
  /\ requests' = A.requests
  /\ apiCalls' = A.apiCalls
  /\ UNCHANGED <<cacheVars, strategyVars, sessionVars, poolVars, invalidatorVars>>

\* a caller calls apiClient
CallApiClient(url, options) ==
  /\ Len(apiCalls) < MaxApiCalls
  /\ ApiBecome(ApiClient(CurApi, url, options))

\* the fetch of request id resolves with response
ApiFetchResolves(id, response) ==
  /\ requests[id].phase = "fetching"
  /\ ApiBecome(Continue(CurApi, id, Try(requests[id], response)))

\* the fetch of request id rejects: the network has failed
ApiFetchFails(id) ==
  /\ requests[id].phase = "fetching"
  /\ ApiBecome(Continue(CurApi, id, Catch(requests[id], NetworkError)))

\* the caller of request id aborts its signal: the fetch rejects with error
ApiFetchAborted(id, error) ==
  /\ requests[id].phase = "fetching"
  /\ requests[id].signal
  /\ ApiBecome(Continue(CurApi, id, Catch(requests[id], error)))

\* the timer of the delay of request id fires
DelayElapses(id) ==
  /\ requests[id].phase = "delaying"
  /\ ApiBecome(Continue(CurApi, id, Again(requests[id])))

\* the callers of apiClient and the network
ApiNext ==
  \/ \E url \in ApiUrls, options \in ApiOptions : CallApiClient(url, options)
  \/ \E id \in 1..Len(requests), response \in Responses :
       ApiFetchResolves(id, response)
  \/ \E id \in 1..Len(requests) : ApiFetchFails(id)
  \/ \E id \in 1..Len(requests) : \E error \in AbortErrors(id) :
       ApiFetchAborted(id, error)
  \/ \E id \in 1..Len(requests) : DelayElapses(id)

(***************************************************************************)
(* The steps of a WebSocketManager: the public calls, the events of its    *)
(* sockets and its timers. While the loop of _flushQueue runs nothing      *)
(* else does.                                                              *)
(***************************************************************************)
CurSession ==
  [mgr |-> manager, socks |-> sockets, orphans |-> orphans, log |-> observed,
   thrown |-> FALSE]

\* the session as a public method of the manager finds it when it is called
AtCall == [CurSession EXCEPT !.log.destroyed = FALSE]

\* the counters and logs of W are within the bounds
Within(W) ==
  /\ Len(W.socks) <= MaxSockets
  /\ W.mgr.heartbeatMissCount <= MaxMissCount
  /\ W.mgr.messageIdCounter <= MaxMessages
  /\ W.mgr.messageSequence <= MaxTracked
  /\ Len(W.log.delivered) <= MaxDelivered

Settle(W) ==
  /\ Within(W)
  /\ manager' = W.mgr
  /\ sockets' = W.socks
  /\ orphans' = W.orphans
  /\ observed' = W.log
  /\ UNCHANGED <<cacheVars, strategyVars, backoff, serviceVars>>

Become(W) == Settle(W) /\ UNCHANGED unsubscribes

Idle == ~manager.flushing

SessionInit ==
  /\ manager \in {NewManager(u) : u \in {"valid", "invalid"}}
  /\ sockets = <<>>
  /\ orphans = [reconnect |-> 0, heartbeat |-> 0]
  /\ backoff = NoBackoff
  /\ observed = NoLog
  /\ unsubscribes = <<>>
  /\ ServicesInit

\* the application calls connect()
CallConnect ==
  /\ Idle
  /\ Len(Connect(CurSession).socks) <= MaxSockets
  /\ Become(Connect([AtCall EXCEPT !.log.quiet = FALSE]))

\* the application calls disconnect()
CallDisconnect == Idle /\ Become(Disconnect(AtCall))

\* the application calls destroy()
CallDestroy == Idle /\ Become(Destroy(AtCall))

\* the application calls send(type, payload)
CallSend(payload, ok) ==
  /\ Idle
  /\ Become(Send(AtCall, "data", payload, ok))

\* the application calls subscribe(type, handler) and keeps what it returns
CallSubscribe(type, handler) ==
  /\ Idle
  /\ Len(unsubscribes) < MaxSubscriptions
  /\ Settle(Subscribe(AtCall, type, handler))
  /\ unsubscribes' =
       Append(unsubscribes, [type |-> type, handler |-> handler, called |-> FALSE])

\* the application calls the function that call number i of subscribe returned
CallUnsubscribe(i) ==
  /\ Idle
  /\ Settle(Unsubscribe(AtCall, unsubscribes[i].type, unsubscribes[i].handler))
  /\ unsubscribes' = [unsubscribes EXCEPT ![i].called = TRUE]

\* the application calls trackMessageSequence(sequenceNum)
CallTrackMessageSequence(sequenceNum) ==
  /\ Idle
  /\ Become(TrackMessageSequence(AtCall, sequenceNum))

\* the open event of socket id
SocketOpens(id) ==
  /\ Idle
  /\ sockets[id].readyState = "CONNECTING"
  /\ Become(HandleOpen([CurSession EXCEPT !.socks[id].readyState = "OPEN"]))

\* the close event of socket id: the close it was asked for has completed,
\* or the connection failed or was dropped
SocketCloses(id) ==
  /\ Idle
  /\ sockets[id].readyState # "CLOSED"
  /\ Become(HandleClose([CurSession EXCEPT !.socks[id].readyState = "CLOSED"]))

\* an error event of socket id
SocketErrors(id) ==
  /\ Idle
  /\ sockets[id].readyState # "CLOSED"
  /\ Become(HandleError(CurSession))

\* a message event of socket id
SocketMessage(id, message, ok) ==
  /\ Idle
  /\ sockets[id].readyState = "OPEN"
  /\ Become(HandleMessage(CurSession, message, ok))

\* a reconnect timeout fires: the one the field holds, or an orphan
ReconnectTimerFires ==
  \/ /\ Idle
     /\ manager.reconnectTimer = "pending"
     /\ Len(Connect(CurSession).socks) <= MaxSockets
     /\ Become(Connect([CurSession EXCEPT !.mgr.reconnectTimer = "fired"]))
  \/ /\ Idle
     /\ orphans.reconnect > 0
     /\ Len(Connect(CurSession).socks) <= MaxSockets
     /\ Become(Connect([CurSession EXCEPT !.orphans.reconnect = @ - 1]))

\* a heartbeat interval fires: the one the field holds, or an orphan
HeartbeatTimerFires ==
  /\ Idle
  /\ manager.heartbeatTimer = "running" \/ orphans.heartbeat > 0
  /\ HeartbeatCheck(CurSession).mgr.heartbeatMissCount <= MaxMissCount
  /\ Become(HeartbeatCheck(CurSession))

\* more than heartbeatInterval + heartbeatTimeout passes without a ping
HeartbeatOverdue ==
  /\ Idle
  /\ manager.lastHeartbeatAt = "recent"
  /\ Become([CurSession EXCEPT !.mgr.lastHeartbeatAt = "overdue"])

\* one turn of the loop of _flushQueue
FlushStep(ok) ==
  /\ manager.flushing
  /\ Become(FlushOne(CurSession, ok))

\* an inbound message of a reserved type, without a sequence number
Reserved(type) == [type |-> type, sequence |-> Undefined]

\* the life cycle of a connection, over sockets that accept what is sent
SessionNext ==
  \/ CallConnect
  \/ CallDisconnect
  \/ CallDestroy
  \/ \E id \in 1..Len(sockets) : SocketOpens(id)
  \/ \E id \in 1..Len(sockets) : SocketCloses(id)
  \/ \E id \in 1..Len(sockets) : SocketErrors(id)
  \/ \E id \in 1..Len(sockets), type \in MessageTypes :
       SocketMessage(id, Reserved(type), TRUE)
  \/ ReconnectTimerFires
  \/ HeartbeatTimerFires
  \/ HeartbeatOverdue
  \/ FlushStep(TRUE)

\* what send is given: a payload JSON.stringify serialises, and one it
\* rejects (a cyclic object, a BigInt)
Payloads == {"ok", "bad"}

\* sends on a connection that opens, closes and reconnects, over sockets
\* whose send may throw
OutboundNext ==
  \/ CallConnect
  \/ CallDisconnect
  \/ \E p \in Payloads, ok \in BOOLEAN : CallSend(p, ok)
  \/ \E id \in 1..Len(sockets) : SocketOpens(id)
  \/ \E id \in 1..Len(sockets) : SocketCloses(id)
  \/ \E id \in 1..Len(sockets), ok \in BOOLEAN :
       SocketMessage(id, Reserved("connection:established"), ok)
  \/ \E ok \in BOOLEAN : FlushStep(ok)

\* the types the manager raises a notification of by itself
NoticeTypes == {"heartbeat:missed", "heartbeat:dead"}

\* an application without option callbacks subscribes its one handler, which
\* calls disconnect() or destroy(), before it connects
SubscribeReentrant ==
  /\ manager.options.callbacks = NoCallbacks
  /\ unsubscribes = <<>>
  /\ sockets = <<>>
  /\ manager.state = "CLOSED"
  /\ \E type \in NoticeTypes \cup {"auth:success"},
        handler \in {"disconnect", "destroy"} : CallSubscribe(type, handler)

\* the life cycle of a connection one of whose callbacks or handlers calls
\* disconnect() or destroy()
ReentrantNext ==
  \/ CallConnect
  \/ SubscribeReentrant
  \/ \E id \in 1..Len(sockets) : SocketOpens(id)
  \/ \E id \in 1..Len(sockets) : SocketCloses(id)
  \/ \E id \in 1..Len(sockets) : SocketErrors(id)
  \/ \E id \in 1..Len(sockets), type \in MessageTypes :
       SocketMessage(id, Reserved(type), TRUE)
  \/ ReconnectTimerFires
  \/ HeartbeatTimerFires
  \/ HeartbeatOverdue
  \/ FlushStep(TRUE)

\* the types of the inbound messages of a feed: one the manager reserves and
\* one it does not
FeedTypes == {"auth:success", "data"}

\* the sequence field of an inbound message: absent, or a number
Sequences == {Undefined, <<1>>}

\* the subscriptions of an application and the messages it receives on an
\* open connection
DispatchNext ==
  \/ CallConnect
  \/ \E id \in 1..Len(sockets) : SocketOpens(id)
  \/ \E type \in FeedTypes, handler \in {"returns", "throws"} :
       CallSubscribe(type, handler)
  \/ \E i \in 1..Len(unsubscribes) : CallUnsubscribe(i)
  \/ \E sequenceNum \in Sequences : CallTrackMessageSequence(sequenceNum)
  \/ \E id \in 1..Len(sockets), type \in FeedTypes, sequence \in Sequences :
       SocketMessage(id, [type |-> type, sequence |-> sequence], TRUE)

(***************************************************************************)
(* Specifications                                                          *)
(***************************************************************************)
StrategyInit == calls = [i \in CallSlots |-> NoCall]

\* a CacheManager of either capacity, no strategy call yet, and an idle
\* WebSocketManager whose url is valid
Init == CacheInit /\ StrategyInit /\ SessionInit /\ manager.url = "valid"

\* a CacheManager of capacity 1, no strategy call yet, and a new
\* WebSocketManager
InitSession == CacheInit /\ maxEntries = 1 /\ StrategyInit /\ SessionInit

\* CacheManager alone
CacheSpec == Init /\ [][CacheNext]_vars

\* the strategies over a CacheManager
StrategySpec == Init /\ [][StrategyNext]_vars

\* WebSocketManager alone
SessionSpec == InitSession /\ [][SessionNext]_vars

\* a new WebSocketManager, with or without an authToken
InitOutbound ==
  /\ CacheInit /\ maxEntries = 1 /\ StrategyInit
  /\ manager \in {NewManagerWith("valid", [DefaultOptions EXCEPT !.authToken = a]) :
                    a \in BOOLEAN}
  /\ sockets = <<>>
  /\ orphans = [reconnect |-> 0, heartbeat |-> 0]
  /\ backoff = NoBackoff
  /\ observed = NoLog
  /\ unsubscribes = <<>>
  /\ ServicesInit

\* the outbound messages of a WebSocketManager
OutboundSpec == InitOutbound /\ [][OutboundNext]_vars

\* the same, where the loop of _flushQueue goes on as long as its test holds
OutboundFairSpec ==
  OutboundSpec /\ WF_vars(\E ok \in BOOLEAN : FlushStep(ok))

\* a new WebSocketManager one of whose callbacks, if any, calls disconnect()
\* or destroy()
InitReentrant ==
  /\ CacheInit /\ maxEntries = 1 /\ StrategyInit
  /\ manager \in
       {NewManager(u) : u \in {"valid", "invalid"}} \cup
       {NewManagerWith(u, [DefaultOptions EXCEPT !.callbacks[c] = does]) :
          u \in {"valid", "invalid"}, c \in CallbackNames,
          does \in {"disconnect", "destroy"}}
  /\ sockets = <<>>
  /\ orphans = [reconnect |-> 0, heartbeat |-> 0]
  /\ backoff = NoBackoff
  /\ observed = NoLog
  /\ unsubscribes = <<>>
  /\ ServicesInit

\* WebSocketManager with callbacks that call back into it
ReentrantSpec == InitReentrant /\ [][ReentrantNext]_vars

\* a new WebSocketManager without callbacks, or with an onMessage callback
\* and an onAuthSuccess callback that throws
InitDispatch ==
  /\ CacheInit /\ maxEntries = 1 /\ StrategyInit
  /\ manager \in
       {NewManager("valid"),
        NewManagerWith("valid",
          [DefaultOptions EXCEPT !.callbacks["onMessage"] = "returns",
                                 !.callbacks["onAuthSuccess"] = "throws"])}
  /\ sockets = <<>>
  /\ orphans = [reconnect |-> 0, heartbeat |-> 0]
  /\ backoff = NoBackoff
  /\ observed = NoLog
  /\ unsubscribes = <<>>
  /\ ServicesInit

\* the dispatch of inbound messages to subscribers
DispatchSpec == InitDispatch /\ [][DispatchNext]_vars

\* a new WebSocketManager without callbacks, or with an onClose or an
\* onReconnecting callback that throws
InitThrowing ==
  /\ CacheInit /\ maxEntries = 1 /\ StrategyInit
  /\ manager \in
       {NewManager(u) : u \in {"valid", "invalid"}} \cup
       {NewManagerWith(u, [DefaultOptions EXCEPT !.callbacks[c] = "throws"]) :
          u \in {"valid", "invalid"}, c \in {"onClose", "onReconnecting"}}
  /\ sockets = <<>>
  /\ orphans = [reconnect |-> 0, heartbeat |-> 0]
  /\ backoff = NoBackoff
  /\ observed = NoLog
  /\ unsubscribes = <<>>
  /\ ServicesInit

\* WebSocketManager with a callback that throws
ThrowingSpec == InitThrowing /\ [][SessionNext]_vars

\* a new ConnectionPool of either capacity
InitPool ==
  /\ CacheInit /\ maxEntries = 1 /\ StrategyInit
  /\ manager = NewManager("valid")
  /\ sockets = <<>>
  /\ orphans = [reconnect |-> 0, heartbeat |-> 0]
  /\ backoff = NoBackoff
  /\ observed = NoLog /\ unsubscribes = <<>>
  /\ pool \in {NewPool(c) : c \in PoolCapacities}
  /\ poolSessions = <<>>
  /\ callers = <<>>
  /\ ApiInit /\ InvalidatorInit

\* ConnectionPool and the sessions it builds
PoolSpec == InitPool /\ [][PoolNext]_vars

\* apiClient before its first call
InitApi ==
  /\ CacheInit /\ maxEntries = 1 /\ StrategyInit
  /\ manager = NewManager("valid")
  /\ sockets = <<>>
  /\ orphans = [reconnect |-> 0, heartbeat |-> 0]
  /\ backoff = NoBackoff
  /\ observed = NoLog /\ unsubscribes = <<>>
  /\ ServicesInit

\* apiClient, its callers and the network
ApiSpec == InitApi /\ [][ApiNext]_vars

\* a manager of any of the delay options, before its first reconnect
InitBackoff ==
  /\ CacheInit /\ maxEntries = 1 /\ StrategyInit
  /\ manager = NewManager("valid")
  /\ sockets = <<>>
  /\ orphans = [reconnect |-> 0, heartbeat |-> 0]
  /\ observed = NoLog
  /\ unsubscribes = <<>>
  /\ ServicesInit
  /\ BackoffInit

\* the reconnect delays alone
BackoffSpec == InitBackoff /\ [][BackoffNext]_vars


(***************************************************************************)
(* CacheManager: the properties checked under CacheSpec                    *)
(***************************************************************************)
\* C1: after every call the number of stored entries is at most maxEntries.
SizeWithinMaxEntries == Len(cache) <= maxEntries

\* a set on a full store has evicted an entry and the store is full again
SizeWitness ==
  /\ lastOp.op = "set"
  /\ lastOp.removed # {}
  /\ Len(cache) = maxEntries
  /\ maxEntries = 2

\* C2: the tag index and the entries agree in both directions: key k is listed
\* under tag t iff the store holds an entry for k whose tags contain t, and no
\* tag is left with an empty set of keys.
TagIndexConsistent ==
  /\ DOMAIN tagIndex \subseteq Tags
  /\ \A t \in DOMAIN tagIndex : tagIndex[t] # {}
  /\ \A t \in Tags, k \in Keys :
       (t \in DOMAIN tagIndex /\ k \in tagIndex[t])
         <=> (HasKey(cache, k) /\ t \in Lookup(cache, k).tags)

\* an eviction took a tagged entry out while another entry of the tag stays
TagIndexWitness ==
  /\ lastOp.op = "set"
  /\ lastOp.removed # {}
  /\ stats.evictions >= 1
  /\ \E t \in DOMAIN tagIndex : Cardinality(tagIndex[t]) = 2

\* C3: a set of a key that is not stored, on a full store, evicts exactly one
\* entry: the one whose last set or successful get is the oldest.
EvictsLeastRecentlyUsed ==
  [][\A k \in Keys, o \in SetOptions :
       (lastOp'.op = "set" /\ ~HasKey(cache, k) /\ Len(cache) = maxEntries
          /\ Set(k, o.value, o.ttl, o.tags))
       => /\ StoredKeys(cache') = (StoredKeys(cache) \ {Head(recency)}) \cup {k}
          /\ Cardinality(StoredKeys(cache) \ StoredKeys(cache')) = 1
          /\ stats'.evictions = stats.evictions + 1]_vars

\* maxEntries = 2: set a, set b, get a, set c has left a and c, b was evicted
EvictsLeastRecentlyUsedWitness ==
  /\ maxEntries = 2
  /\ lastOp.op = "set"
  /\ lastOp.removed = {"b"}
  /\ stats.hits = 1
  /\ stats.evictions = 1
  /\ recency = <<"a", "c">>
  /\ <<cache[1].key, cache[2].key>> = <<"a", "c">>

\* C4: an entry is expired exactly when now - createdAt > ttl; get returns the
\* stored value only for a present entry that is not expired, and a get of an
\* expired entry returns null, removes the entry and its tag-index references
\* and counts a miss.
GetHonoursTTL ==
  [][\A k \in Keys :
       (lastOp'.op = "get" /\ Get(k)) =>
         /\ \A i \in 1..Len(cache) :
              isExpired(cache[i], now) <=> now - cache[i].createdAt > cache[i].ttl
         /\ lastOp'.ret # Null =>
              /\ HasKey(cache, k)
              /\ ~(now - Lookup(cache, k).createdAt > Lookup(cache, k).ttl)
              /\ lastOp'.ret = Lookup(cache, k).value
         /\ (HasKey(cache, k)
               /\ now - Lookup(cache, k).createdAt > Lookup(cache, k).ttl) =>
              /\ lastOp'.ret = Null
              /\ ~HasKey(cache', k)
              /\ \A t \in DOMAIN tagIndex' : k \notin tagIndex'[t]
              /\ stats'.misses = stats.misses + 1
              /\ stats'.hits = stats.hits]_vars

\* a get has found its entry expired and removed it
GetHonoursTTLWitness ==
  /\ lastOp.op = "get"
  /\ lastOp.ret = Null
  /\ Cardinality(lastOp.removed) = 1
  /\ stats.misses >= 1

\* C5: invalidateByTag(t) removes exactly the entries whose tags contain t,
\* keeps the other entries in their order and returns the number removed.
InvalidateByTagExact ==
  [][\A t \in Tags :
       (lastOp'.op = "invalidateByTag" /\ InvalidateByTag(t)) =>
         /\ cache' = SelectSeq(cache, LAMBDA e : t \notin e.tags)
         /\ lastOp'.ret = ToString(Len(cache) - Len(cache'))]_vars

\* invalidateByTag removed one entry and left another one in the store
InvalidateByTagWitness ==
  /\ lastOp.op = "invalidateByTag"
  /\ lastOp.ret = "1"
  /\ Cardinality(lastOp.removed) = 1
  /\ Len(cache) = 1

(***************************************************************************)
(* Cache strategies: the properties checked under StrategySpec             *)
(***************************************************************************)
NextStore == Store(cache', tagIndex', stats')

\* the entry of key is stored and now - createdAt > ttl
StoredExpired(key) ==
  /\ HasKey(cache, key)
  /\ now - Lookup(cache, key).createdAt > Lookup(cache, key).ttl

\* the store holds value under key, and a get that follows returns it
Holds(S, key, value) ==
  /\ CacheGetStale(S, key) = value
  /\ CacheGet(S, key, now).ret = value

\* C6: staleWhileRevalidate on a key with a stored entry, fresh or expired,
\* returns synchronously {data: the cached value, source: cache, stale: the
\* entry is expired} and starts exactly one fetch; once that fetch resolves
\* the store holds the fetched value for the key, a get returns it, and
\* onRevalidated has been invoked with it.
StaleWhileRevalidateFromCache ==
  [][\A i \in CallSlots :
       /\ \A k \in StrategyKeys, o \in StrategyOptions :
            (calls'[i].strategy = "staleWhileRevalidate" /\ HasKey(cache, k)
               /\ CallStaleWhileRevalidate(i, k, o))
            => /\ calls'[i].result =
                    Returned(Lookup(cache, k).value, "cache", StoredExpired(k))
               /\ calls'[i].fetches = 1
               /\ calls'[i].phase = "fetching"
       /\ \A v \in FetchValues :
            (calls[i].strategy = "staleWhileRevalidate"
               /\ calls[i].result.kind = "returned" /\ FetchResolves(i, v))
            => /\ Holds(NextStore, calls[i].key, v)
               /\ calls[i].opts.callbacks =>
                    calls'[i].notified = [cb |-> "onRevalidated", arg |-> v]
               /\ calls'[i].result = calls[i].result
               /\ calls'[i].fetches = 1]_vars

\* C7: staleWhileRevalidate on a key with no stored entry settles only when
\* its fetch settles: it resolves to {data: the fetched value, source:
\* network, stale: false} when the fetch resolves and rejects with the
\* fetch's own error, never the generic one, when the fetch rejects.
StaleWhileRevalidateFromNetwork ==
  [][\A i \in CallSlots :
       /\ \A k \in StrategyKeys, o \in StrategyOptions :
            (calls'[i].strategy = "staleWhileRevalidate" /\ ~HasKey(cache, k)
               /\ CallStaleWhileRevalidate(i, k, o))
            => /\ calls'[i].result = Pending
               /\ calls'[i].phase = "fetching"
               /\ calls'[i].fetches = 1
       /\ (calls[i].strategy = "staleWhileRevalidate"
             /\ calls[i].result = Pending /\ calls'[i] # calls[i])
          => /\ calls[i].phase = "fetching"
             /\ \E v \in FetchValues, e \in Errors :
                  FetchResolves(i, v) \/ FetchRejects(i, e)
       /\ \A v \in FetchValues :
            (calls[i].strategy = "staleWhileRevalidate"
               /\ calls[i].result = Pending /\ FetchResolves(i, v))
            => calls'[i].result = Resolved(v, "network", FALSE, Null)
       /\ \A e \in Errors :
            (calls[i].strategy = "staleWhileRevalidate"
               /\ calls[i].result = Pending /\ FetchRejects(i, e))
            => calls'[i].result = Rejected(e)]_vars

\* C8: networkFirst stores and returns the fetched value with stale: false
\* when the fetch resolves; when it rejects and the store holds an entry for
\* the key, expired or not, it resolves to {data: the stored value, source:
\* cache, stale: true, error: the fetch error} and leaves the store as it
\* is; when it rejects and no entry is stored it rejects with that error.
NetworkFirstFallsBack ==
  [][\A i \in CallSlots :
       /\ \A v \in FetchValues :
            (calls[i].strategy = "networkFirst" /\ FetchResolves(i, v))
            => /\ Holds(NextStore, calls[i].key, v)
               /\ calls'[i].result = Resolved(v, "network", FALSE, Null)
       /\ \A e \in Errors :
            (calls[i].strategy = "networkFirst" /\ FetchRejects(i, e))
            => /\ NextStore = CurStore
               /\ calls'[i].result =
                    IF HasKey(cache, calls[i].key)
                    THEN Resolved(Lookup(cache, calls[i].key).value,
                                  "cache", TRUE, e)
                    ELSE Rejected(e)]_vars

\* C9: cacheFirst returns the cached value with stale: false and never
\* invokes fetch when get hits; on a miss it invokes fetch exactly once,
\* stores its result under the key and returns it; when the fetch rejects
\* the same error is propagated and no entry is written.
CacheFirstReadsThrough ==
  [][\A i \in CallSlots :
       /\ \A k \in StrategyKeys, o \in StrategyOptions :
            (calls'[i].strategy = "cacheFirst" /\ CallCacheFirst(i, k, o))
            => IF HasKey(cache, k) /\ ~StoredExpired(k)
               THEN /\ calls'[i].result =
                         Resolved(Lookup(cache, k).value, "cache", FALSE, Null)
                    /\ calls'[i].fetches = 0
                    /\ calls'[i].phase = "settled"
               ELSE /\ calls'[i].result = Pending
                    /\ calls'[i].fetches = 1
                    /\ calls'[i].phase = "fetching"
       /\ \A v \in FetchValues :
            (calls[i].strategy = "cacheFirst" /\ FetchResolves(i, v))
            => /\ Holds(NextStore, calls[i].key, v)
               /\ calls'[i].result = Resolved(v, "network", FALSE, Null)
               /\ calls'[i].fetches = 1
       /\ \A e \in Errors :
            (calls[i].strategy = "cacheFirst" /\ FetchRejects(i, e))
            => /\ calls'[i].result = Rejected(e)
               /\ calls'[i].fetches = 1
               /\ NextStore = CurStore]_vars

(***************************************************************************)
(* WebSocketManager: the properties checked under SessionSpec              *)
(***************************************************************************)
\* a reconnect timeout is scheduled, held by the field or not
ReconnectPending(m, o) == m.reconnectTimer = "pending" \/ o.reconnect > 0

\* C10: disconnect() suppresses auto-reconnect. When disconnect() returns no
\* reconnect timer is pending, state is Closed and authenticated is false;
\* and the close event of the socket that disconnect() closed schedules no
\* reconnect, whatever calls (a later connect() among them) came before it.
DisconnectSuppressesReconnect ==
  [][/\ CallDisconnect =>
          /\ manager'.state = "CLOSED"
          /\ ~manager'.authenticated
          /\ ~ReconnectPending(manager', orphans')
     /\ \A id \in 1..Len(sockets) :
          sockets[id].byDisconnect /\ SocketCloses(id) =>
            /\ manager'.reconnectTimer # "pending"
            /\ manager'.reconnectAttempts = manager.reconnectAttempts]_vars

\* the reconnect timeouts that are scheduled
PendingReconnects(m, o) ==
  (IF m.reconnectTimer = "pending" THEN 1 ELSE 0) + o.reconnect

ReconnectDelayMonotoneAndCapped ==
  [][\A j \in Jitters :
       ScheduleDelay(j) =>
         LET b == backoff.baseReconnectDelay
             m == backoff.maxReconnectDelay
             n == backoff'.reconnectAttempts
         IN  /\ backoff'.delay <= m
             /\ \/ backoff'.delay = b * Pow2(n - 1) + j
                \/ backoff'.delay = m /\ m <= b * Pow2(n - 1) + j
             /\ n > 1 => ReconnectDelay(b, m, n - 1, 0)
                           <= ReconnectDelay(b, m, n, 0)]_vars

\* a delay the cap has cut, after one it has not
ReconnectDelayWitness ==
  /\ backoff.reconnectAttempts = 6
  /\ backoff.baseReconnectDelay = 1000
  /\ backoff.delay = 30000
  /\ ReconnectDelay(1000, 30000, 5, 0) = 16000

\* C13: when the heartbeat check has missed three consecutive times on an
\* open connection, heartbeat:dead is notified and the socket is closed with
\* code 4000 exactly once for that connection: the checks that run before
\* the close event is handled do not repeat it.
HeartbeatDeadOnce ==
  \A id \in 1..Len(sockets) : sockets[id].deadCloses <= 1

(***************************************************************************)
(* WebSocketManager: the properties checked under OutboundSpec             *)
(***************************************************************************)
\* the last n elements of seq
LastOf(seq, n) ==
  IF Len(seq) <= n THEN seq ELSE SubSeq(seq, Len(seq) - n + 1, Len(seq))

\* the message a call of send builds in the current state
NextMessage(payload) ==
  [id |-> manager.messageIdCounter + 1, type |-> "data", payload |-> payload]

\* C14: the outbound queue never holds more than maxQueueSize messages; a
\* send while the socket is not open leaves the last maxQueueSize messages
\* of the queue and the new one, in send order; and on the next open each
\* turn of the flush transmits the oldest queued message, so that the queue
\* goes out in that order.
QueueBoundedDropsOldest ==
  /\ [](Len(manager.messageQueue) <= MaxQueueSize)
  /\ [][/\ \A p \in Payloads, ok \in BOOLEAN :
             (~IsOpen(CurSession) /\ CallSend(p, ok)) =>
               manager'.messageQueue =
                 LastOf(Append(manager.messageQueue, NextMessage(p)),
                        MaxQueueSize)
        /\ (manager.flushing /\ \E ok \in BOOLEAN : FlushStep(ok)) =>
             /\ observed'.wire =
                  Append(observed.wire, Head(manager.messageQueue).id)
             /\ manager'.messageQueue = Tail(manager.messageQueue)]_vars

\* seq is strictly increasing
Increasing(seq) == \A i, j \in 1..Len(seq) : i < j => seq[i] < seq[j]

\* C15: any two messages passed to send that are both transmitted are
\* transmitted in the order of their send calls, each once, whatever the
\* interleaving of sends, open and close events and failing socket sends:
\* the ids on the wire, which send hands out in call order, only grow; and
\* a flush that has begun comes to its end.
OutboundOrderPreserved ==
  /\ [](Increasing(observed.wire))
  /\ manager.flushing ~> ~manager.flushing

\* C17: destroy() is terminal. After it the state is Closed, authenticated is
\* false, the subscriber map and the queue are empty and no timer is
\* pending, and this stays so under the events of the sockets and of the
\* timers for as long as no public method is called.
DestroyIsTerminal ==
  observed.destroyed =>
    /\ manager.state = "CLOSED"
    /\ ~manager.authenticated
    /\ manager.messageHandlers = NoHandlers
    /\ manager.messageQueue = <<>>
    /\ manager.reconnectTimer # "pending"
    /\ manager.heartbeatTimer # "running"
    /\ orphans.reconnect = 0
    /\ orphans.heartbeat = 0

(***************************************************************************)
(* WebSocketManager: the properties checked under ReentrantSpec            *)
(***************************************************************************)
\* C16: once a callback or a subscribed handler has called disconnect() or
\* destroy(), no reconnect timer and no heartbeat timer is pending, and the
\* manager makes no connection attempt, until the application calls
\* connect() again.
QuietAfterReentrantDisconnect ==
  /\ [](observed.quiet =>
          /\ manager.reconnectTimer # "pending"
          /\ manager.heartbeatTimer # "running"
          /\ orphans.reconnect = 0
          /\ orphans.heartbeat = 0)
  /\ [][(observed.quiet /\ ~CallConnect) => Len(sockets') = Len(sockets)]_vars

(***************************************************************************)
(* WebSocketManager: the properties checked under DispatchSpec             *)
(***************************************************************************)
\* C18: the function subscribe(type, handler) returned is idempotent. Its
\* first call leaves the handler unregistered for the type, and no type with
\* an empty set of handlers; every later call of it leaves the subscriber map
\* as it is, whatever was subscribed and unsubscribed in between.
UnsubscribeIdempotent ==
  [][\A i \in 1..Len(unsubscribes) :
       CallUnsubscribe(i) =>
         LET type == unsubscribes[i].type
             handler == unsubscribes[i].handler
             left == HandlersOf(manager', type)
         IN  IF unsubscribes[i].called
             THEN manager'.messageHandlers = manager.messageHandlers
             ELSE /\ \A j \in 1..Len(left) : left[j] # handler
                  /\ \A t \in DOMAIN manager'.messageHandlers :
                       manager'.messageHandlers[t] # <<>>]_vars

\* the deliveries of message to handlers, in their order
RECURSIVE DeliveriesTo(_, _)
DeliveriesTo(handlers, message) ==
  IF handlers = <<>> THEN <<>>
  ELSE <<[to |-> Head(handlers), type |-> message.type,
          sequence |-> message.sequence]>>
         \o DeliveriesTo(Tail(handlers), message)

\* C19: every inbound message, of a reserved type or not, is delivered at
\* its receipt to every handler subscribed to its type, in the order of
\* subscription, and then to onMessage when there is one, whether or not a
\* handler throws; no delivery is held back or reordered by sequence number.
DeliveredToAllInReceiptOrder ==
  [][\A id \in 1..Len(sockets), type \in FeedTypes, sequence \in Sequences :
       LET message == [type |-> type, sequence |-> sequence]
       IN  SocketMessage(id, message, TRUE) =>
             observed'.delivered =
               observed.delivered
                 \o DeliveriesTo(HandlersOf(manager, type), message)
                 \o IF manager.options.callbacks["onMessage"] # "null"
                    THEN DeliveriesTo(<<"onMessage">>, message)
                    ELSE <<>>]_vars

\* C20: an inbound message with a numeric sequence is compared with the last
\* sequence seen: outOfOrderCount grows by one when the sequence is not
\* greater, and the sequence becomes the last one seen.
InboundSequenceTracked ==
  [][\A id \in 1..Len(sockets), type \in FeedTypes, sequence \in Sequences :
       (sequence # Undefined
          /\ SocketMessage(id, [type |-> type, sequence |-> sequence], TRUE)) =>
         /\ manager'.lastReceivedSequence = sequence[1]
         /\ manager'.outOfOrderCount =
              IF sequence[1] <= manager.lastReceivedSequence
              THEN manager.outOfOrderCount + 1
              ELSE manager.outOfOrderCount]_vars

(***************************************************************************)
(* ConnectionPool: the properties checked under PoolSpec                   *)
(***************************************************************************)
\* the sessions the pool has built and not destroyed
LiveSessions == {s \in 1..Len(poolSessions) : ~poolSessions[s].log.destroyed}

\* C21: at every moment the sessions the pool has created and not destroyed
\* are at most maxConnections, and no two of them are of the same url.
PoolBoundsSessions ==
  /\ Cardinality(LiveSessions) <= pool.maxConnections
  /\ \A s, t \in LiveSessions :
       poolSessions[s].url = poolSessions[t].url => s = t

\* the callers that were given session and have not released it
Holders(session) ==
  {i \in 1..Len(callers) :
     callers[i].status = "holding" /\ callers[i].session = session}

\* C22: the refCount of every pooled connection is the number of acquire
\* calls that returned its session less the releases of those callers; an
\* acquire of a url whose session is connected returns that session and
\* adds one to its count without building a session, and a release of a
\* url the pool does not hold changes nothing.
RefCountExact ==
  /\ [](\A k \in 1..Len(pool.connections) :
          pool.connections[k].refCount =
            Cardinality(Holders(pool.connections[k].session)))
  /\ [][\A url \in PoolUrls :
          LET k == ConnectionAt(pool.connections, url)
          IN  (CallAcquire(url) /\ k # 0
                 /\ Connected(CurPool, pool.connections[k].session)) =>
                /\ callers'[Len(callers')].status = "holding"
                /\ callers'[Len(callers')].session = pool.connections[k].session
                /\ pool'.connections =
                     [pool.connections EXCEPT ![k].refCount = @ + 1]
                /\ Len(poolSessions') = Len(poolSessions)]_vars
  /\ [][\A i \in 1..Len(callers) :
          (CallRelease(i) /\ ConnectionAt(pool.connections, callers[i].url) = 0)
            => pool' = pool /\ poolSessions' = poolSessions]_vars

\* C23: waiting callers are served first come, first served. When release(url)
\* brings a refCount to 0 while callers wait, the idle session is destroyed,
\* the timeout of the caller at the head of the wait queue is cancelled,
\* and that caller and no other is resolved, with a session of its own url;
\* the queue is in the order in which the callers began to wait, and a
\* waiting caller is never resolved unless it is at the head.
WaitersServedInOrder ==
  /\ [](Increasing(pool.waitQueue))
  /\ [][\A j \in 1..Len(callers) :
          (callers[j].status = "waiting" /\ callers'[j].status = "holding")
            => j = Head(pool.waitQueue)]_vars
  /\ [][\A i \in 1..Len(callers) :
          LET k == ConnectionAt(pool.connections, callers[i].url)
              head == Head(pool.waitQueue)
          IN  (CallRelease(i) /\ k # 0 /\ pool.connections[k].refCount <= 1
                 /\ pool.waitQueue # <<>>) =>
                /\ poolSessions'[pool.connections[k].session].log.destroyed
                /\ pool'.waitQueue = Tail(pool.waitQueue)
                /\ callers'[head].timeout = "cleared"
                /\ callers'[head].status = "holding"
                /\ callers'[head].settled = 1
                /\ poolSessions'[callers'[head].session].url = callers[head].url
                /\ ~poolSessions'[callers'[head].session].log.destroyed
                /\ \A j \in 1..Len(callers) \ {head} :
                     callers'[j].status = "holding"
                       => callers[j].status = "holding"]_vars

\* a release has handed its slot to the first of two waiting callers
WaitersServedInOrderWitness ==
  /\ Len(callers) >= 3
  /\ callers[1].status = "released"
  /\ callers[2].status = "holding" /\ callers[2].timeout = "cleared"
  /\ callers[3].status = "waiting"
  /\ pool.waitQueue = <<3>>
  /\ poolSessions[1].log.destroyed

\* C24: whenever a caller waits, the pool holds maxConnections connections
\* and none of them is idle: no caller waits while a slot is free or could
\* be freed by an eviction.
NoWaitingWhileSlotFree ==
  pool.waitQueue # <<>> =>
    /\ Len(pool.connections) = pool.maxConnections
    /\ \A k \in 1..Len(pool.connections) : pool.connections[k].refCount > 0

\* the callers in the wait queue
Waiting == {pool.waitQueue[k] : k \in 1..Len(pool.waitQueue)}

\* C25: a waiting caller whose timeout fires is rejected with the
\* pool-exhausted error and leaves the wait queue; every caller that has
\* waited is settled exactly once, by a session, by its timeout or by
\* destroyAll, and the wait queue holds the callers that are not settled and
\* no others.
WaitersSettledOnce ==
  /\ [](\A i \in 1..Len(callers) :
          /\ callers[i].settled <= 1
          /\ i \in Waiting <=> callers[i].settled = 0
          /\ i \in Waiting <=> callers[i].status = "waiting"
          /\ i \in Waiting <=> callers[i].timeout = "pending"
          /\ callers[i].error = "exhausted" <=> callers[i].timeout = "fired"
          /\ callers[i].status = "rejected"
               <=> callers[i].error \in {"exhausted", "destroyed"})
  /\ [](\A k, l \in 1..Len(pool.waitQueue) :
          pool.waitQueue[k] = pool.waitQueue[l] => k = l)
  /\ [][\A i \in 1..Len(callers) :
          AcquireTimeoutFires(i) =>
            /\ callers'[i].status = "rejected"
            /\ callers'[i].error = "exhausted"
            /\ callers'[i].settled = 1
            /\ pool'.waitQueue = Without(pool.waitQueue, i)
            /\ pool'.connections = pool.connections]_vars

\* of three callers that waited, one was rejected by its timeout, one was
\* resolved by a release and one was rejected by destroyAll
WaitersSettledOnceWitness ==
  /\ pool.waitQueue = <<>>
  /\ \E i, j, k \in 1..Len(callers) :
       /\ callers[i].error = "exhausted" /\ callers[i].timeout = "fired"
       /\ callers[j].timeout = "cleared" /\ callers[j].status \in {"holding", "released"}
       /\ callers[k].error = "destroyed" /\ callers[k].timeout = "cleared"

(***************************************************************************)
(* apiClient: the properties checked under ApiSpec                         *)
(***************************************************************************)
\* request id has not settled
InFlight(id) == requests[id].phase # "settled"

\* the calls of apiClient that were given request id
CallersOf(id) == {c \in 1..Len(apiCalls) : apiCalls[c].request = id}

\* the GETs without a signal, and the GETs with one
PlainGets ==
  {c \in 1..Len(apiCalls) :
     apiCalls[c].options.method = "GET" /\ ~apiCalls[c].options.signal}
SignalGets ==
  {c \in 1..Len(apiCalls) :
     apiCalls[c].options.method = "GET" /\ apiCalls[c].options.signal}

\* the calls in cs that are to one url and whose requests are pending were
\* given one request
ShareOneRequest(cs) ==
  \A c, d \in cs :
    /\ apiCalls[c].url = apiCalls[d].url
    /\ InFlight(apiCalls[c].request) /\ InFlight(apiCalls[d].request)
    => apiCalls[c].request = apiCalls[d].request

\* a GET with a signal has a request no other call was given
SignalGetsAreAlone ==
  \A c \in SignalGets : CallersOf(apiCalls[c].request) = {c}

\* this step is a GET with a signal: it starts a request of its own with a
\* network call and leaves the requests of the others and the map as they are
SignalGetStartsItsOwn ==
  \A url \in ApiUrls, options \in ApiOptions :
    CallApiClient(url, options) /\ options.method = "GET" /\ options.signal =>
      /\ Len(requests') = Len(requests) + 1
      /\ apiCalls'[Len(apiCalls')].request = Len(requests')
      /\ requests'[Len(requests')].fetches = 1
      /\ requests'[Len(requests')].phase = "fetching"
      /\ SubSeq(requests', 1, Len(requests)) = requests
      /\ inFlightRequests' = inFlightRequests

\* this step is the abort of a request: no other request, no call and no
\* entry of the map changes
AbortTouchesNoOther ==
  \A id \in 1..Len(requests) : \A error \in AbortErrors(id) :
    ApiFetchAborted(id, error) =>
      /\ \A other \in 1..Len(requests) :
           other # id => requests'[other] = requests[other]
      /\ apiCalls' = apiCalls
      /\ inFlightRequests' = inFlightRequests

\* C26, as stated: two concurrent GETs to one url without a signal share one
\* request, with one series of network calls and one outcome; a GET with a
\* signal neither joins a request nor is joined, starts its own network call,
\* and its abort changes nothing for any other caller.
ConcurrentGetsShareOneRequest ==
  /\ [](ShareOneRequest(PlainGets) /\ SignalGetsAreAlone)
  /\ [][SignalGetStartsItsOwn /\ AbortTouchesNoOther]_vars

\* C26, amended: the same of the GETs without a signal that have not
\* disabled de-duplication; a call that finds the request of its url pending
\* starts no network call.
DedupGetsShareOneRequest ==
  /\ [](/\ ShareOneRequest({c \in PlainGets : apiCalls[c].options.deduplicate})
        /\ SignalGetsAreAlone)
  /\ [][/\ SignalGetStartsItsOwn
        /\ AbortTouchesNoOther
        /\ \A url \in ApiUrls, options \in ApiOptions :
             /\ CallApiClient(url, options)
             /\ CanDedup(options)
             /\ \E c \in PlainGets :
                  /\ apiCalls[c].options.deduplicate
                  /\ apiCalls[c].url = url
                  /\ InFlight(apiCalls[c].request)
             => requests' = requests]_vars

\* two GETs without a signal share request 1, which has made a second network
\* call and is pending, while a GET to the same url with a signal was given
\* request 2, which its abort has settled
DedupGetsShareOneRequestWitness ==
  /\ Len(apiCalls) = 3 /\ Len(requests) = 2
  /\ {1, 2} \subseteq PlainGets /\ 3 \in SignalGets
  /\ apiCalls[1].url = apiCalls[3].url
  /\ CallersOf(1) = {1, 2} /\ CallersOf(2) = {3}
  /\ InFlight(1) /\ requests[1].fetches = 2
  /\ ~InFlight(2) /\ requests[2].outcome = [rejected |-> TRUE, value |-> AbortError(2)]

\* request id may be re-issued: retry is enabled and budget is left
BudgetLeft(id) ==
  requests[id].retry /\ requests[id].attempt < requests[id].maxRetries

\* request id has settled in this step, rejected with error, without a
\* network call
RaisedNow(id, error) ==
  /\ requests'[id].phase = "settled"
  /\ requests'[id].outcome = [rejected |-> TRUE, value |-> error]
  /\ requests'[id].fetches = requests[id].fetches

\* request id waits for delay from this step on, without a network call
DelayedNow(id, delay) ==
  /\ requests'[id].phase = "delaying"
  /\ requests'[id].delay = delay
  /\ requests'[id].fetches = requests[id].fetches
  /\ requests'[id].attempt = requests[id].attempt

\* a request that has settled stays as it is: no network call follows
SettledForGood ==
  \A id \in 1..Len(requests) :
    ~InFlight(id) => requests'[id] = requests[id]

\* the network call of a request is made again when its delay is over, as
\* the next attempt
ReissuedAfterDelay ==
  \A id \in 1..Len(requests) :
    DelayElapses(id) =>
      /\ requests'[id].phase = "fetching"
      /\ requests'[id].attempt = requests[id].attempt + 1
      /\ requests'[id].fetches = requests[id].fetches + 1

\* C27: a request with retry enabled is re-issued after a 5xx response or a
\* failure of the network at most maxRetries times, each time after
\* RETRY_DELAY_BASE * 2^attempt; a 4xx response other than 429 is not
\* retried and is raised as ApiError with its status and body; a 5xx
\* response when no retry is left is raised as ApiError with its status.
RetriesWithBackoff ==
  /\ [](\A id \in 1..Len(requests) :
          /\ requests[id].fetches = requests[id].attempt + 1
          /\ requests[id].attempt <= requests[id].maxRetries
          /\ ~requests[id].retry => requests[id].attempt = 0)
  /\ [][/\ SettledForGood
        /\ ReissuedAfterDelay
        /\ \A id \in 1..Len(requests) :
             /\ ApiFetchFails(id) /\ BudgetLeft(id) =>
                  DelayedNow(id, RETRY_DELAY_BASE * Pow2(requests[id].attempt))
             /\ \A response \in Responses :
                  ApiFetchResolves(id, response) =>
                    /\ response.status >= 500 /\ BudgetLeft(id) =>
                         DelayedNow(id, RETRY_DELAY_BASE
                                          * Pow2(requests[id].attempt))
                    /\ response.status >= 500 /\ ~BudgetLeft(id) =>
                         /\ RaisedNow(id, requests'[id].outcome.value)
                         /\ requests'[id].outcome.value.name = "ApiError"
                         /\ requests'[id].outcome.value.status = response.status
                    /\ response.status \in (400..499) \ {429} =>
                         /\ RaisedNow(id, requests'[id].outcome.value)
                         /\ requests'[id].outcome.value.name = "ApiError"
                         /\ requests'[id].outcome.value.status = response.status
                         /\ requests'[id].outcome.value.data =
                              IF response.body = "garbled" THEN Null
                              ELSE response.body]_vars

\* a request of the default options was raised as ApiError 500 after four
\* network calls, and one was raised as ApiError 404 with its body after one
RetriesWithBackoffWitness ==
  /\ Len(requests) = 2
  /\ requests[1].maxRetries = MAX_RETRIES /\ requests[1].retry
  /\ ~InFlight(1) /\ requests[1].fetches = MAX_RETRIES + 1
  /\ requests[1].outcome.rejected
  /\ requests[1].outcome.value.name = "ApiError"
  /\ requests[1].outcome.value.status = 500
  /\ ~InFlight(2) /\ requests[2].fetches = 1 /\ requests[2].retry
  /\ requests[2].outcome.rejected
  /\ requests[2].outcome.value.name = "ApiError"
  /\ requests[2].outcome.value.status = 404
  /\ requests[2].outcome.value.data = "data"

\* the seconds a Retry-After header of the server says
SecondsOf(header) == IF header = <<2>> THEN 2 ELSE 60

\* C28: after a 429 response a request with retry enabled and budget left is
\* re-issued after min(Retry-After, 5) seconds; without budget, or with retry
\* disabled, it is raised as RateLimitError with the Retry-After value of the
\* server, and no network call follows.
RateLimitHonoured ==
  [][/\ SettledForGood
     /\ ReissuedAfterDelay
     /\ \A id \in 1..Len(requests), response \in Responses :
          ApiFetchResolves(id, response) /\ response.status = 429 =>
            /\ BudgetLeft(id) /\ response.retryAfter # Null =>
                 DelayedNow(id, 1000 * Min(SecondsOf(response.retryAfter), 5))
            /\ BudgetLeft(id) /\ response.retryAfter = Null =>
                 DelayedNow(id, 5000)
            /\ ~BudgetLeft(id) =>
                 /\ RaisedNow(id, requests'[id].outcome.value)
                 /\ requests'[id].outcome.value.name = "RateLimitError"
                 /\ requests'[id].outcome.value.status = 429
                 /\ response.retryAfter # Null =>
                      requests'[id].outcome.value.retryAfter =
                        SecondsOf(response.retryAfter)]_vars

\* a request of the default options was raised as RateLimitError with the 60
\* seconds of the server after four network calls, and a request with retry
\* disabled was raised as RateLimitError with 2 seconds after one
RateLimitHonouredWitness ==
  /\ Len(requests) = 2
  /\ requests[1].retry /\ requests[1].maxRetries = MAX_RETRIES
  /\ ~InFlight(1) /\ requests[1].fetches = MAX_RETRIES + 1
  /\ requests[1].outcome.value.name = "RateLimitError"
  /\ requests[1].outcome.value.retryAfter = 60
  /\ ~requests[2].retry
  /\ ~InFlight(2) /\ requests[2].fetches = 1
  /\ requests[2].outcome.value.name = "RateLimitError"
  /\ requests[2].outcome.value.retryAfter = 2

\* C29: when the network call of a request fails with the error of an
\* abort, at the first attempt or at a retry, the request is rejected with
\* that very error, not with an ApiError, a RateLimitError or any other, and
\* no network call follows.
AbortPropagatesVerbatim ==
  [][/\ SettledForGood
     /\ \A id \in 1..Len(requests) : \A error \in AbortErrors(id) :
          ApiFetchAborted(id, error) => RaisedNow(id, error)]_vars

\* the requests that are in the map
Tracked == {inFlightRequests[k].request : k \in 1..Len(inFlightRequests)}

\* C30: the in-flight map holds a url only while a GET without a signal to it
\* is pending: the step that settles the request, after all its retries,
\* removes the entry, the map is empty when no de-duplicable request is
\* pending, and a GET to a url the map does not hold makes a new network
\* call.
InFlightMapTracksPending ==
  /\ [](/\ \A k \in 1..Len(inFlightRequests) :
             LET e == inFlightRequests[k]
             IN  /\ e.request \in 1..Len(requests)
                 /\ InFlight(e.request)
                 /\ requests[e.request].canDedup
                 /\ requests[e.request].url = e.url
                 /\ \E c \in PlainGets : apiCalls[c].request = e.request
                 /\ \A l \in 1..Len(inFlightRequests) :
                      inFlightRequests[l].url = e.url => l = k
        /\ \A id \in 1..Len(requests) :
             InFlight(id) /\ requests[id].canDedup => id \in Tracked
        /\ (\A id \in 1..Len(requests) :
              ~(InFlight(id) /\ requests[id].canDedup))
             => inFlightRequests = <<>>)
  /\ [][/\ \A id \in 1..Len(requests) :
             InFlight(id) /\ requests'[id].phase = "settled" =>
               \A k \in 1..Len(inFlightRequests') :
                 /\ inFlightRequests'[k].request # id
                 /\ requests[id].canDedup =>
                      inFlightRequests'[k].url # requests[id].url
        /\ \A url \in ApiUrls, options \in ApiOptions :
             /\ CallApiClient(url, options)
             /\ options.method = "GET"
             /\ InFlightAt(inFlightRequests, url) = 0
             => /\ Len(requests') = Len(requests) + 1
                /\ requests'[Len(requests')].phase = "fetching"
                /\ requests'[Len(requests')].fetches = 1
                /\ apiCalls'[Len(apiCalls')].request = Len(requests')]_vars

\* a GET without a signal has settled after a retry and its url has left the
\* map; a later GET to the same url was given a new request, which is pending
\* and in the map
InFlightMapTracksPendingWitness ==
  /\ Len(requests) = 2 /\ Len(apiCalls) >= 2
  /\ requests[1].canDedup /\ requests[2].canDedup
  /\ requests[1].url = requests[2].url
  /\ ~InFlight(1) /\ requests[1].fetches = 2
  /\ InFlight(2)
  /\ apiCalls[1].request = 1 /\ apiCalls[2].request = 2
  /\ inFlightRequests = <<[url |-> requests[2].url, request |-> 2]>>

(***************************************************************************)
(* WebSocketManager: further properties checked under SessionSpec          *)
(***************************************************************************)
\* connect() has run, and neither disconnect() nor destroy() after it
Connecting(m, socks) ==
  ~m.isIntentionallyClosed /\ (socks # <<>> \/ m.state # "CLOSED")

\* the socket the manager holds is connecting
AttemptInProgress(m, socks) ==
  m.ws # 0 /\ socks[m.ws].readyState = "CONNECTING"

\* the connect() a reconnect timeout calls does not return at its guard
TimerStartsAttempt(m, o) ==
  ReconnectPending(m, o) /\ ~(m.ws # 0 /\ m.state \in {"CONNECTING", "OPEN"})

\* C31: from connect() until disconnect() or destroy(), while the session is
\* not Open and reconnectAttempts is below maxReconnectAttempts, a transport
\* is connecting or a reconnect timer is pending whose firing starts a new
\* attempt; a WebSocket constructor that throws schedules a reconnect.
ReconnectMakesProgress ==
  Connecting(manager, sockets)
    /\ manager.state # "OPEN"
    /\ manager.reconnectAttempts < MaxReconnectAttempts
  => AttemptInProgress(manager, sockets) \/ TimerStartsAttempt(manager, orphans)

\* C32: connect() called while the state is Connecting or Open is a no-op:
\* no field of the session changes, no transport is opened and no timer is
\* scheduled.
ConnectWhileConnectingIsNoOp ==
  [][CallConnect /\ manager.state \in {"CONNECTING", "OPEN"} =>
       /\ manager' = manager
       /\ sockets' = sockets
       /\ orphans' = orphans]_vars

\* the close(4000) calls of the heartbeat monitor so far
DeadCloses(socks) ==
  LET RECURSIVE Sum(_)
      Sum(k) == IF k = 0 THEN 0 ELSE socks[k].deadCloses + Sum(k - 1)
  IN  Sum(Len(socks))

\* C33: heartbeatMissCount counts the heartbeat checks that found the last
\* heartbeat overdue since the last open or heartbeat:ping; a heartbeat:ping
\* is answered with heartbeat:pong, makes lastHeartbeatAt now and resets the
\* count to 0; so the connection is declared dead only by a check that is at
\* least the third to miss with no heartbeat:ping in between.
HeartbeatMissesCounted ==
  [][/\ HeartbeatTimerFires =>
          /\ manager.lastHeartbeatAt = "overdue" =>
               manager'.heartbeatMissCount = manager.heartbeatMissCount + 1
          /\ manager.lastHeartbeatAt # "overdue" =>
               manager'.heartbeatMissCount = manager.heartbeatMissCount
     /\ \A id \in 1..Len(sockets) :
          SocketMessage(id, Reserved("heartbeat:ping"), TRUE) =>
            /\ manager'.heartbeatMissCount = 0
            /\ manager'.lastHeartbeatAt = "recent"
            /\ manager'.messageIdCounter = manager.messageIdCounter + 1
            /\ \/ observed'.wire = Append(observed.wire, manager'.messageIdCounter)
               \/ /\ manager'.messageQueue # <<>>
                  /\ manager'.messageQueue[Len(manager'.messageQueue)]
                       = [id |-> manager'.messageIdCounter,
                          type |-> "heartbeat:pong", payload |-> "ok"]
     /\ manager'.heartbeatMissCount # manager.heartbeatMissCount =>
          \/ HeartbeatTimerFires
          \/ /\ manager'.heartbeatMissCount = 0
             /\ \/ \E id \in 1..Len(sockets) :
                     SocketMessage(id, Reserved("heartbeat:ping"), TRUE)
                \/ manager'.state = "OPEN" /\ manager'.heartbeatTimer = "running"
     /\ DeadCloses(sockets') # DeadCloses(sockets) =>
          /\ HeartbeatTimerFires
          /\ manager.lastHeartbeatAt = "overdue"
          /\ manager.heartbeatMissCount >= DeadAfterMisses - 1
          /\ manager'.heartbeatMissCount >= DeadAfterMisses]_vars

\* a heartbeat:ping was answered and has reset the count, and three checks
\* that missed after it have declared the connection dead
HeartbeatMissesCountedWitness ==
  /\ manager.heartbeatMissCount = DeadAfterMisses
  /\ manager.lastHeartbeatAt = "overdue"
  /\ observed.wire = <<1>>
  /\ DeadCloses(sockets) = 1

(***************************************************************************)
(* ConnectionPool: further properties checked under PoolSpec               *)
(***************************************************************************)
\* the connection c of the pool is in the pool no more after this step
Removed(c) ==
  \A k \in 1..Len(pool'.connections) :
    pool'.connections[k].session # c.session

\* C34: the pool removes a connection to make room only when its refCount is
\* 0: an acquire at capacity evicts the idle connection with the smallest
\* lastUsedAt, a release removes the connection it has brought to 0 while a
\* caller waits, and a connection with refCount > 0 leaves the pool only by
\* destroyAll; a session is destroyed only when its connection is removed.
OnlyIdleConnectionsRemoved ==
  [][/\ \A k \in 1..Len(pool.connections) :
          LET c == pool.connections[k]
          IN  Removed(c) =>
                \/ CallDestroyAll
                \/ /\ c.refCount = 0
                   /\ Len(pool.connections) >= pool.maxConnections
                   /\ \A j \in IdleAt(pool.connections) :
                        c.lastUsedAt <= pool.connections[j].lastUsedAt
                \/ /\ c.refCount <= 1
                   /\ pool.waitQueue # <<>>
                   /\ \E i \in 1..Len(callers) :
                        callers[i].url = c.url /\ CallRelease(i)
     /\ \A s \in LiveSessions :
          poolSessions'[s].log.destroyed =>
            \E k \in 1..Len(pool.connections) :
              pool.connections[k].session = s /\ Removed(pool.connections[k])
    ]_vars

(***************************************************************************)
(* CacheInvalidator over a CacheManager                                    *)
(***************************************************************************)
\* the resource and mutation types the invalidator is called with: strings,
\* written as the sequences of their characters
ResourceTypes == {<<"a">>, <<"a", ":", "b">>}
MutationTypes == {<<"c">>, <<"b", ":", "c">>}
\* the payloads of a mutation; id 0 stands for a payload without an id
MutationPayloads == {[id |-> 0], [id |-> 1]}
\* a tag producer is a literal tag or the function
\* (payload) => `t${payload.id}`
Literal(tag) == [kind |-> "literal", tag |-> tag]
ById == [kind |-> "function", tag |-> "t${payload.id}"]
\* the tags rules are registered with
RuleTags ==
  { <<>>, <<Literal("t1"), Literal("t2")>>, <<Literal("t2"), ById>> }
\* the keys entries are stored under before a mutation
TaggedKeys == {"a", "b"}
\* the calls of registerMutationRule in a run
MaxRules == 2

\* `${resourceType}:${mutationType}`
RuleKey(resourceType, mutationType) == resourceType \o <<":">> \o mutationType

\* typeof tag === 'function' ? tag(payload) : tag
ResolveTag(tag, payload) ==
  IF tag.kind = "function"
  THEN CASE payload.id = 1 -> "t1"
         [] payload.id = 2 -> "t2"
         [] OTHER -> "tundefined"
  ELSE tag.tag

\* a plausible slip: every entry a tag is found on is counted under each of
\* the rule's tags it carries
RECURSIVE InvalidateEachPerTag(_, _, _, _)
InvalidateEachPerTag(S, tags, payload, invalidated) ==
  IF tags = <<>> THEN [store |-> S, ret |-> invalidated]
  ELSE LET tag == ResolveTag(Head(tags), payload)
           r == CacheInvalidateByTag(S, tag)
           later == {ResolveTag(Tail(tags)[i], payload) : i \in 1..Len(Tail(tags))}
           again == Cardinality({e \in StoredKeys(S.cache) \ StoredKeys(r.store.cache) :
                                   Lookup(S.cache, e).tags \cap (later \ {tag}) # {}})
       IN  InvalidateEachPerTag(r.store, Tail(tags), payload,
                                invalidated + r.ret + again)

\* tags.forEach: invalidated += this.cache.invalidateByTag(tagToInvalidate)
RECURSIVE InvalidateEach(_, _, _, _)
InvalidateEach(S, tags, payload, invalidated) ==
  IF tags = <<>> THEN [store |-> S, ret |-> invalidated]
  ELSE LET r == CacheInvalidateByTag(S, ResolveTag(Head(tags), payload))
       IN  InvalidateEach(r.store, Tail(tags), payload, invalidated + r.ret)

\* CacheInvalidator.onMutation over the rules and the store
OnMutation(rules, S, resourceType, mutationType, payload) ==
  LET key == RuleKey(resourceType, mutationType) IN
  IF key \in DOMAIN rules
  THEN InvalidateEach(S, rules[key], payload, 0)
  ELSE [store |-> S, ret |-> 0]

\* CacheInvalidator.registerMutationRule: Map.set under the key
RegisterMutationRule(resourceType, mutationType, tags) ==
  LET key == RuleKey(resourceType, mutationType)
      pair == <<resourceType, mutationType>>
  IN
  /\ Cardinality(DOMAIN registered \cup {pair}) <= MaxRules
  /\ mutationRules' = [k \in DOMAIN mutationRules \cup {key} |->
                         IF k = key THEN tags ELSE mutationRules[k]]
  /\ registered' = [q \in DOMAIN registered \cup {pair} |->
                      IF q = pair THEN tags ELSE registered[q]]
  /\ UNCHANGED <<cacheVars, strategyVars, sessionVars, poolVars, apiVars,
                 mutation>>

CallOnMutation(resourceType, mutationType, payload) ==
  LET r == OnMutation(mutationRules, CurStore, resourceType, mutationType,
                      payload) IN
  /\ Install(r.store)
  /\ recency' = Stored(recency, r.store.cache)
  /\ lastOp' = Called("onMutation", ToString(r.ret), r.store.cache)
  /\ mutation' = [resourceType |-> resourceType, mutationType |-> mutationType,
                  payload |-> payload, ret |-> r.ret]
  /\ UNCHANGED <<maxEntries, now, strategyVars, sessionVars, poolVars, apiVars,
                 mutationRules, registered>>

InvalidatorNext ==
  \/ \E k \in TaggedKeys, o \in SetOptions : Set(k, o.value, o.ttl, o.tags)
  \/ \E rt \in ResourceTypes, mt \in MutationTypes, tags \in RuleTags :
       RegisterMutationRule(rt, mt, tags)
  \/ \E rt \in ResourceTypes, mt \in MutationTypes, p \in MutationPayloads :
       CallOnMutation(rt, mt, p)

\* a CacheInvalidator without rules over an empty CacheManager of capacity 2
InitInvalidator == Init /\ maxEntries = 2

InvalidatorSpec == InitInvalidator /\ [][InvalidatorNext]_vars

\* the tags the rule registered for a pair resolves to
ResolvedTags(pair, payload) ==
  {ResolveTag(registered[pair][i], payload) : i \in 1..Len(registered[pair])}

\* the stored keys whose entry carries one of the tags
Carrying(tags) ==
  {k \in StoredKeys(cache) : Lookup(cache, k).tags \cap tags # {}}

\* C35: onMutation(resourceType, mutationType, payload) returns 0 and
\* changes nothing when no rule was registered for the pair; otherwise it
\* removes exactly the entries that carry one of the tags the rule's
\* producers resolve to and returns their number, an entry that carries
\* several of these tags counting once
OnMutationFollowsTheRule ==
  [][\A rt \in ResourceTypes, mt \in MutationTypes, p \in MutationPayloads :
       CallOnMutation(rt, mt, p) =>
         IF <<rt, mt>> \notin DOMAIN registered
         THEN /\ mutation'.ret = 0
              /\ cache' = cache /\ tagIndex' = tagIndex /\ stats' = stats
         ELSE /\ StoredKeys(cache) \ StoredKeys(cache')
                   = Carrying(ResolvedTags(<<rt, mt>>, p))
              /\ mutation'.ret = Cardinality(Carrying(ResolvedTags(<<rt, mt>>, p)))
    ]_vars

\* the same with the rule taken from the Map, under the key of the pair
RuleUnderKey(rt, mt, p) ==
  {ResolveTag(mutationRules[RuleKey(rt, mt)][i], p) :
     i \in 1..Len(mutationRules[RuleKey(rt, mt)])}

OnMutationFollowsTheKey ==
  [][\A rt \in ResourceTypes, mt \in MutationTypes, p \in MutationPayloads :
       CallOnMutation(rt, mt, p) =>
         IF RuleKey(rt, mt) \notin DOMAIN mutationRules
         THEN /\ mutation'.ret = 0
              /\ cache' = cache /\ tagIndex' = tagIndex /\ stats' = stats
         ELSE /\ StoredKeys(cache) \ StoredKeys(cache')
                   = Carrying(RuleUnderKey(rt, mt, p))
              /\ mutation'.ret = Cardinality(Carrying(RuleUnderKey(rt, mt, p)))
    ]_vars

(***************************************************************************)
(* WebSocketManager: invariants of a session, under SessionSpec            *)
(***************************************************************************)
\* C36: authenticated is true only while state is Open: it becomes true only
\* by an auth:success message, and every close event, auth:failed,
\* disconnect() and destroy() leave it false, whichever socket the events
\* come from
AuthenticatedOnlyWhileOpen ==
  /\ [](manager.authenticated => manager.state = "OPEN")
  /\ [][/\ (~manager.authenticated /\ manager'.authenticated =>
              \E id \in 1..Len(sockets) :
                SocketMessage(id, Reserved("auth:success"), TRUE))
        /\ (CallDisconnect \/ CallDestroy => ~manager'.authenticated)
        /\ \A id \in 1..Len(sockets) :
             /\ SocketCloses(id) => ~manager'.authenticated
             /\ SocketMessage(id, Reserved("auth:failed"), TRUE) =>
                  ~manager'.authenticated]_vars

\* the heartbeat intervals that are running, held by the field or not
RunningHeartbeats(m, o) ==
  (IF m.heartbeatTimer = "running" THEN 1 ELSE 0) + o.heartbeat

\* C37: the timers match the state: at most one heartbeat interval and one
\* reconnect timer exist, the heartbeat interval runs exactly while state is
\* Open, and a reconnect timer is pending only while state is not Open
TimersMatchState ==
  /\ RunningHeartbeats(manager, orphans) <= 1
  /\ PendingReconnects(manager, orphans) <= 1
  /\ RunningHeartbeats(manager, orphans) = 1 <=> manager.state = "OPEN"
  /\ ReconnectPending(manager, orphans) => manager.state # "OPEN"

(***************************************************************************)
(* OverlapSpec: two strategy calls for one key whose fetches overlap on    *)
(* one CacheManager, with invalidate(key) in between                       *)
(***************************************************************************)
\* the calls in flight at once: a call takes slot 1 when no fetch is in
\* flight and slot 2 while the fetch of slot 1 is in flight
OverlapSlots == {1, 2}

SlotFree(i) ==
  IF i = 1 THEN \A j \in OverlapSlots : calls[j].phase # "fetching"
  ELSE calls[1].phase = "fetching"

InitOverlap ==
  /\ CacheInit
  /\ calls = [i \in OverlapSlots |-> NoCall]
  /\ SessionInit /\ manager.url = "valid"

OverlapNext ==
  \/ \E i \in OverlapSlots, k \in StrategyKeys, o \in StrategyOptions :
       SlotFree(i) /\ CallCacheFirst(i, k, o)
  \/ \E i \in OverlapSlots, k \in StrategyKeys, o \in StrategyOptions :
       SlotFree(i) /\ CallNetworkFirst(i, k, o)
  \/ \E i \in OverlapSlots, k \in StrategyKeys, o \in StrategyOptions :
       SlotFree(i) /\ CallStaleWhileRevalidate(i, k, o)
  \/ \E i \in OverlapSlots, v \in FetchValues : FetchResolves(i, v)
  \/ \E i \in OverlapSlots, e \in Errors : FetchRejects(i, e)
  \/ \E k \in StrategyKeys : OtherInvalidate(k)

OverlapSpec == InitOverlap /\ [][OverlapNext]_vars

\* the store holds data under key
StoreHolds(c, key, data) == HasKey(c, key) /\ Lookup(c, key).value = data

\* call i got its value from the network
FromNetwork(i) ==
  /\ calls[i].phase = "settled"
  /\ \/ calls[i].result.kind = "resolved" /\ calls[i].result.source = "network"
     \/ calls[i].strategy = "staleWhileRevalidate"
          /\ calls[i].revalidating \in Values

\* C38: the strategies write in the order their fetches complete, without a
\* staleness guard: whenever a fetch resolves, its value is stored under the
\* key of its call, whether the store was written or the key was invalidated
\* since the fetch started, and whichever overlapping fetch started first
WritesInCompletionOrder ==
  [][\A i \in OverlapSlots, v \in FetchValues :
       FetchResolves(i, v) => StoreHolds(cache', calls[i].key, v)]_vars

\* the fetch of slot 1, which started first, resolved after the fetch of
\* slot 2 had stored another value, and the store holds its value
WritesInCompletionOrderWitness ==
  /\ FromNetwork(1) /\ FromNetwork(2)
  /\ calls[1].key = calls[2].key
  /\ calls[1].strategy = "cacheFirst" /\ calls[2].strategy = "networkFirst"
  /\ calls[1].result.data = "v1" /\ calls[2].result.data = "v2"
  /\ StoreHolds(cache, calls[1].key, "v1")

(***************************************************************************)
(* staleWhileRevalidate on an expired entry, under StrategySpec            *)
(***************************************************************************)
\* the store holds an expired entry under key
ExpiredAt(key) == HasKey(cache, key) /\ isExpired(Lookup(cache, key), now)

\* call i returned a stale value and its revalidation is in flight
RevalidatingStale(i) ==
  /\ calls[i].strategy = "staleWhileRevalidate"
  /\ calls[i].phase = "fetching"
  /\ calls[i].result.kind = "returned" /\ calls[i].result.stale

\* C39: staleWhileRevalidate on a key whose entry is expired returns the
\* stale value and removes the entry in the same call; when the revalidation
\* then fails, the revalidating handle resolves to null, what the call
\* returned stays as it was and the store is not written, so the key stays
\* absent: getStale(key) returns null, a later staleWhileRevalidate waits for
\* the network and a later networkFirst whose fetch fails rejects
ExpiredEntryLostOnFailedRevalidation ==
  [][/\ \A i \in CallSlots, k \in StrategyKeys, o \in StrategyOptions :
          CallStaleWhileRevalidate(i, k, o) =>
            /\ ExpiredAt(k) =>
                 /\ calls'[i].result
                      = Returned(Lookup(cache, k).value, "cache", TRUE)
                 /\ ~HasKey(cache', k)
                 /\ CacheGetStale(NextStore, k) = Null
            /\ ~HasKey(cache, k) => calls'[i].result = Pending
     /\ \A i \in CallSlots, e \in Errors :
          FetchRejects(i, e) =>
            /\ NextStore = CurStore
            /\ RevalidatingStale(i) =>
                 /\ calls'[i].revalidating = Null
                 /\ calls'[i].result = calls[i].result
            /\ calls[i].strategy = "networkFirst" /\ ~HasKey(cache, calls[i].key)
                 => calls'[i].result = Rejected(e)
    ]_vars

\* the same for the entries whose value is not null
ExpiredValueLostOnFailedRevalidation ==
  [][/\ \A i \in CallSlots, k \in StrategyKeys, o \in StrategyOptions :
          CallStaleWhileRevalidate(i, k, o) =>
            /\ ExpiredAt(k) /\ Lookup(cache, k).value # Null =>
                 /\ calls'[i].result
                      = Returned(Lookup(cache, k).value, "cache", TRUE)
                 /\ ~HasKey(cache', k)
                 /\ CacheGetStale(NextStore, k) = Null
            /\ ~HasKey(cache, k) => calls'[i].result = Pending
     /\ \A i \in CallSlots, e \in Errors :
          FetchRejects(i, e) =>
            /\ NextStore = CurStore
            /\ RevalidatingStale(i) =>
                 /\ calls'[i].revalidating = Null
                 /\ calls'[i].result = calls[i].result
            /\ calls[i].strategy = "networkFirst" /\ ~HasKey(cache, calls[i].key)
                 => calls'[i].result = Rejected(e)
    ]_vars

(***************************************************************************)
(* ApiFairSpec: the calls of apiClient that share one request, over a      *)
(* network whose every fetch settles and timers that fire                  *)
(***************************************************************************)
\* the requests of a run
MaxFairRequests == 1

\* fetch settles, one way or the other
FetchSettles(id) ==
  \/ \E response \in Responses : ApiFetchResolves(id, response)
  \/ ApiFetchFails(id)

ApiFairNext ==
  \/ \E url \in ApiUrls, options \in ApiOptions :
       CallApiClient(url, options) /\ Len(requests') <= MaxFairRequests
  \/ \E id \in 1..Len(requests), response \in Responses :
       ApiFetchResolves(id, response)
  \/ \E id \in 1..Len(requests) : ApiFetchFails(id)
  \/ \E id \in 1..Len(requests) : \E error \in AbortErrors(id) :
       ApiFetchAborted(id, error)
  \/ \E id \in 1..Len(requests) : DelayElapses(id)

ApiFairSpec ==
  /\ InitApi
  /\ [][ApiFairNext]_vars
  /\ \A id \in 1..MaxFairRequests :
       /\ WF_vars(Len(requests) >= id /\ FetchSettles(id))
       /\ WF_vars(Len(requests) >= id /\ DelayElapses(id))

\* the network calls request id has made
NetworkCalls(id) == requests[id].fetches

\* C40: every request terminates, after at most maxRetries + 1 network calls
\* whatever mix of 429, 5xx and failures of the network the calls meet (the
\* three retry paths spend the same attempts), and after exactly one network
\* call when retry is false
RequestsTerminate ==
  /\ [](\A id \in 1..Len(requests) :
          /\ NetworkCalls(id) >= 1
          /\ NetworkCalls(id) <= requests[id].maxRetries + 1
          /\ ~requests[id].retry => NetworkCalls(id) = 1)
  /\ [][\A id \in 1..Len(requests) :
          NetworkCalls(id) < requests'[id].fetches =>
            /\ requests'[id].fetches = NetworkCalls(id) + 1
            /\ requests'[id].attempt = requests[id].attempt + 1
            /\ requests'[id].attempt <= requests[id].maxRetries]_vars
  /\ \A id \in 1..MaxFairRequests :
       (Len(requests) >= id)
         ~> (Len(requests) >= id /\ requests[id].phase = "settled")

\* a request has settled after maxRetries + 1 network calls, and one that
\* settles once it is started
RequestsTerminateWitness ==
  /\ Len(requests) = 1
  /\ requests[1].phase = "settled"
  /\ requests[1].retry
  /\ NetworkCalls(1) = MAX_RETRIES + 1
  /\ requests[1].outcome.rejected
  /\ requests[1].outcome.value.name = "RateLimitError"

====
